---- MODULE Spec2Model ----
(***************************************************************************)
(* Model of the pre-login command suite (src/commands/prelogin.py): the    *)
(* login throttle, connect, guest login, create and the remaining          *)
(* unconnected commands, over a small world of sessions, accounts,         *)
(* characters, a ban list and a clock; and of exits and timed movement     *)
(* (src/typeclasses/exits.py): a traveller, rooms, exits and the delayed   *)
(* calls of the reactor.                                                   *)
(*                                                                         *)
(* Text is modelled by TLA+ strings used as sequences of characters        *)
(* (Len, Head, Tail, SubSeq, \o); the parsing and validation of command    *)
(* arguments is computed character by character, as the code does.         *)
(***************************************************************************)
EXTENDS Integers, Sequences, FiniteSets, TLC

VARIABLES
    now,        \* the value time.time() returns (whole seconds)
    storage,    \* _LATEST_FAILED_LOGINS: address key -> list of timestamps
    accounts,   \* AccountDB: sequence of account records, id = position
    characters, \* ObjectDB characters: sequence of records, id = position
    sessions,   \* session id -> session record
    settings,   \* django settings consumed by the module
    bans,       \* ServerConfig 'server_bans'
    out,        \* what the last command did: command, session, args, events
    exits,      \* exit name -> its location, destination, db.is_path, db.err_traverse
    traveller,  \* the travelling character: location, db and ndb attributes
    deferreds,  \* the calls utils.delay made that are pending or still held, id = position
    cmdset_module, \* the import state of the command set module
    cmdsets,    \* bundle name -> the framework's default commands and the bundle's
    server      \* the process pool plugin's flags, the platform and server.services

vars == <<now, storage, accounts, characters, sessions, settings, bans, out,
          exits, traveller, deferreds, cmdset_module, cmdsets, server>>

\* the variables of server start: command sets and services
startup_vars == <<cmdset_module, cmdsets, server>>

\* the variables of the movement subsystem
travel_vars == <<exits, traveller, deferreds>>

\* the variables of the pre-login suite, the record of the last command aside
prelogin_vars == <<now, storage, accounts, characters, sessions, settings, bans>>

----------------------------------------------------------------------------
(* Bounds of the model *)

\* the clock stops advancing at MaxTime
MaxTime == 599
\* the account table holds at most this many accounts
MaxAccounts == 3

(* Program constants *)

\* maxlim=5 of the throttle checks
ThrottleMaxlim == 5
\* timeout=5 * 60 of the throttle checks
ThrottleTimeout == 300
\* 0 < len(accountname) <= 30
MaxNameLen == 30
\* 3 < len(password)
MinPasswordLen == 3

----------------------------------------------------------------------------
(* Text helpers: python str methods and the regular expressions used *)

UpperChars == "ABCDEFGHIJKLMNOPQRSTUVWXYZ"
LowerChars == "abcdefghijklmnopqrstuvwxyz"
DigitChars == "0123456789"

CharAt(s, i) == SubSeq(s, i, i)

\* the characters of a string, as a set
CharsOf(s) == {CharAt(s, i) : i \in 1..Len(s)}

UpperSet == CharsOf(UpperChars)

\* str.lower() on each upper-case letter
LowerOfUpper ==
    [c \in UpperSet |->
        CharAt(LowerChars, CHOOSE i \in 1..Len(UpperChars) : CharAt(UpperChars, i) = c)]

RECURSIVE InStr(_, _)
\* c in s, for a character c
InStr(c, s) == Len(s) > 0 /\ (Head(s) = c \/ InStr(c, Tail(s)))

\* str.lower() on one character
LowerCh(c) == IF c \in UpperSet THEN LowerOfUpper[c] ELSE c

RECURSIVE Lower(_)
\* str.lower()
Lower(s) == IF Len(s) = 0 THEN "" ELSE LowerCh(Head(s)) \o Lower(Tail(s))

\* whitespace as str.strip(), str.split(None) and \s see it
IsSpace(c) == c = " "

RECURSIVE LStrip(_)
LStrip(s) == IF Len(s) > 0 /\ IsSpace(Head(s)) THEN LStrip(Tail(s)) ELSE s

RECURSIVE RStrip(_)
RStrip(s) ==
    IF Len(s) > 0 /\ IsSpace(CharAt(s, Len(s)))
    THEN RStrip(SubSeq(s, 1, Len(s) - 1))
    ELSE s

\* str.strip()
Strip(s) == RStrip(LStrip(s))

RECURSIVE SplitOn(_, _)
\* re.split(r"\"", s) with c the double quote: every segment, empty ones too
SplitOn(s, c) ==
    IF ~InStr(c, s) THEN <<s>>
    ELSE LET i == CHOOSE j \in 1..Len(s) :
                     /\ CharAt(s, j) = c
                     /\ \A k \in 1..(j - 1) : CharAt(s, k) # c
         IN  <<SubSeq(s, 1, i - 1)>> \o SplitOn(SubSeq(s, i + 1, Len(s)), c)

\* [part.strip() for part in re.split(r"\"", args) if part.strip()]
QuotedParts(args) ==
    LET segs == SplitOn(args, "\"")
        stripped == [i \in 1..Len(segs) |-> Strip(segs[i])]
    IN  SelectSeq(stripped, LAMBDA p : Len(p) > 0)

\* str.split(None, 1)
SplitNone1(s) ==
    LET t == LStrip(s)
    IN  IF Len(t) = 0 THEN <<>>
        ELSE IF ~InStr(" ", t) THEN <<t>>
        ELSE LET i == CHOOSE j \in 1..Len(t) :
                          /\ IsSpace(CharAt(t, j))
                          /\ \A k \in 1..(j - 1) : ~IsSpace(CharAt(t, k))
                 rest == LStrip(SubSeq(t, i + 1, Len(t)))
             IN  IF Len(rest) = 0 THEN <<SubSeq(t, 1, i - 1)>>
                 ELSE <<SubSeq(t, 1, i - 1), rest>>

\* the characters of the class [\w. @+\-']
AllowedChars ==
    CharsOf(UpperChars) \cup CharsOf(LowerChars) \cup CharsOf(DigitChars)
        \cup {"_", ".", " ", "@", "+", "-", "'"}

IsAllowedChar(c) == c \in AllowedChars

\* re.findall(r"^[\w. @+\-']+$", s) is not empty
RECURSIVE AllAllowed(_)
AllAllowed(s) == Len(s) = 0 \/ (IsAllowedChar(Head(s)) /\ AllAllowed(Tail(s)))

MatchesAllowed(s) == Len(s) > 0 /\ AllAllowed(s)

RECURSIVE CollapseSpaces(_)
\* re.sub(r"\s+", " ", s)
CollapseSpaces(s) ==
    IF Len(s) = 0 THEN ""
    ELSE IF IsSpace(Head(s))
         THEN " " \o CollapseSpaces(LStrip(s))
         ELSE Head(s) \o CollapseSpaces(Tail(s))

----------------------------------------------------------------------------
(* The command lines the model issues, and the text helpers tabulated over  *)
(* every string that can occur (each table holds the helper's values, so a  *)
(* step looks a value up instead of recomputing it)                          *)

\* None, where the code holds None in a name variable; no username equals it
None == "<None>"

GuestNames == <<"Guest1", "Guest2">>

ConnectArgs ==
    {" Anna c67jHL8p", " anna wrong", " \"Bob\" \"pw12\"", " guest", " GUEST ",
     " Anna", ""}

ThrottleArgs == {" Anna c67jHL8p", " anna wrong", " Bob pw12"}

\* create with a name of 32 characters as typed that collapses to "Bob B"
LongNameLine == " \"Bob                            B\" \"pw12\""

CreateArgs ==
    {" Bob pw12", " bob pw12", " anna pw12", " Guest1 pw12", " Bob ab",
     " B!b pw12", " Bob", " \"Bob  B\" \"pw 12\"", LongNameLine,
     " Bob abc", " Bob abcd", " Bob pw!2"}

\* the create lines tried on a game that has no account yet
FreshCreateArgs ==
    {" \"Anna the Barbarian\" \"c67jHL8p\"", " Anna c67jHL8p",
     " \"anna the  barbarian\" \"c67jHL8p\"", " Cleo pw12", " Bob ab"}

\* the create lines of the whole-suite specification
SuiteCreateArgs == {" Bob pw12", " bob pw12", " anna pw12", " Guest1 pw12", " Bob ab"}

EncodingArgs == {"", "latin-1", "ascii", "klingon", "utf-9"}

\* the encoding lines of the whole-suite specification
SuiteEncodingArgs == {"", "klingon"}

Range(f) == {f[i] : i \in DOMAIN f}

ArgStrings == ConnectArgs \cup ThrottleArgs \cup CreateArgs \cup FreshCreateArgs

StripOf == [a \in ArgStrings |-> Strip(a)]

LineStrings == ArgStrings \cup Range(StripOf)

QuotedPartsOf == [a \in LineStrings |-> QuotedParts(a)]

PartStrings == UNION {Range(QuotedPartsOf[a]) : a \in LineStrings}

SplitNone1Of == [p \in PartStrings |-> SplitNone1(p)]

TokenStrings == PartStrings \cup UNION {Range(SplitNone1Of[p]) : p \in PartStrings}

CollapseOf == [t \in TokenStrings |-> Strip(CollapseSpaces(t))]

MatchesAllowedOf == [t \in TokenStrings |-> MatchesAllowed(t)]

NameStrings ==
    TokenStrings \cup Range(CollapseOf) \cup Range(GuestNames) \cup {"Anna", None}

LowerOf == [n \in NameStrings |-> Lower(n)]

----------------------------------------------------------------------------
(* The world the commands act on *)

\* session.address: a host string, or a (host, port) tuple
StrAddress(h) == [tuple |-> FALSE, str |-> h]
TupleAddress(h, p) == [tuple |-> TRUE, items |-> <<h, p>>]

\* the connections of the model: two from one host (one of them reporting its
\* address as a tuple) and one from another host
SessionAddress(s) ==
    CASE s = "s1" -> StrAddress("10.0.0.1")
      [] s = "s2" -> TupleAddress("10.0.0.1", "4000")
      [] OTHER    -> StrAddress("10.0.0.2")

\* address = session.address; if isinstance(address, tuple): address = address[0]
AddrKey(address) == IF address.tuple THEN address.items[1] ELSE address.str

\* one thing a command did: a message sent to the caller, a framework call, a log
Ev(k, v) == [k |-> k, v |-> v]

\* the mutable world a helper reads and returns
World == [storage |-> storage, accounts |-> accounts, characters |-> characters,
          sessions |-> sessions, events |-> <<>>]

\* session.msg(text), text named by its message id
Msg(w, m) == [w EXCEPT !.events = Append(@, Ev("msg", m))]

\* any other observable call
Call(w, k, v) == [w EXCEPT !.events = Append(@, Ev(k, v))]

\* session.sessionhandler.disconnect(session, 'Good bye! Disconnecting.')
Disconnect(w, s) ==
    LET w1 == Call(Msg(w, "goodbye"), "disconnect", s)
    IN  [w1 EXCEPT !.sessions[s].connected = FALSE]

\* session.sessionhandler.login(session, account)
Login(w, s, aid) ==
    LET w1 == Call(w, "login", s)
    IN  [w1 EXCEPT !.sessions[s].logged_in = TRUE, !.sessions[s].account = aid]

\* the lookup made as username__istartswith
IExact_startswith(accs, name) ==
    {i \in 1..Len(accs) :
        /\ Len(accs[i].username) >= Len(name)
        /\ SubSeq(LowerOf[accs[i].username], 1, Len(name)) = LowerOf[name]}

\* ids of the accounts whose username equals name ignoring case (username__iexact)
IExact(accs, name) ==
    {i \in 1..Len(accs) : LowerOf[accs[i].username] = LowerOf[name]}

\* AccountDB.objects.get_account_from_name(name): the account id, 0 for None
get_account_from_name(accs, name) ==
    IF IExact(accs, name) = {} THEN 0 ELSE CHOOSE i \in IExact(accs, name) : TRUE

\* django authenticate(username=name, password=password): the account id, 0 for None
authenticate(accs, name, password) ==
    LET aid == get_account_from_name(accs, name)
    IN  IF aid # 0 /\ accs[aid].password = password THEN aid ELSE 0

----------------------------------------------------------------------------
(* _throttle *)

\* maxlim = 0 and timeout = 0 stand for None (both are falsy in the code)
NoLimit == 0

\* _throttle with the timeout compared by <= : still throttled at exactly timeout
_throttle_le(st, address, t, maxlim, timeout) ==
    LET key == AddrKey(address)
    IN  IF maxlim # NoLimit /\ timeout # NoLimit
        THEN LET latest_fails == st[key]
             IN  IF Len(latest_fails) > 0 /\ Len(latest_fails) >= maxlim
                 THEN IF t - latest_fails[Len(latest_fails)] <= timeout
                      THEN [ret |-> TRUE, storage |-> st]
                      ELSE [ret |-> FALSE, storage |-> [st EXCEPT ![key] = <<>>]]
                 ELSE [ret |-> FALSE, storage |-> st]
        ELSE [ret |-> FALSE, storage |-> [st EXCEPT ![key] = Append(@, t)]]

\* _throttle that never lets the timeout pass
_throttle_forever(st, address, t, maxlim, timeout) ==
    LET key == AddrKey(address)
    IN  IF maxlim # NoLimit /\ timeout # NoLimit
        THEN LET latest_fails == st[key]
             IN  IF Len(latest_fails) > 0 /\ Len(latest_fails) >= maxlim
                 THEN [ret |-> TRUE, storage |-> st]
                 ELSE [ret |-> FALSE, storage |-> st]
        ELSE [ret |-> FALSE, storage |-> [st EXCEPT ![key] = Append(@, t)]]

\* _throttle whose check also stores the time of a check that passes
_throttle_check_appends(st, address, t, maxlim, timeout) ==
    LET key == AddrKey(address)
    IN  IF maxlim # NoLimit /\ timeout # NoLimit
        THEN LET latest_fails == st[key]
             IN  IF Len(latest_fails) > 0 /\ Len(latest_fails) >= maxlim
                 THEN IF t - latest_fails[Len(latest_fails)] < timeout
                      THEN [ret |-> TRUE, storage |-> st]
                      ELSE [ret |-> FALSE, storage |-> [st EXCEPT ![key] = <<>>]]
                 ELSE [ret |-> FALSE, storage |-> [st EXCEPT ![key] = Append(@, t)]]
        ELSE [ret |-> FALSE, storage |-> [st EXCEPT ![key] = Append(@, t)]]

\* _throttle that lets a check pass after the timeout without resetting the list
_throttle_no_reset(st, address, t, maxlim, timeout) ==
    LET key == AddrKey(address)
    IN  IF maxlim # NoLimit /\ timeout # NoLimit
        THEN LET latest_fails == st[key]
             IN  IF Len(latest_fails) > 0 /\ Len(latest_fails) >= maxlim
                 THEN IF t - latest_fails[Len(latest_fails)] < timeout
                      THEN [ret |-> TRUE, storage |-> st]
                      ELSE [ret |-> FALSE, storage |-> st]
                 ELSE [ret |-> FALSE, storage |-> st]
        ELSE [ret |-> FALSE, storage |-> [st EXCEPT ![key] = Append(@, t)]]

_throttle(st, address, t, maxlim, timeout) ==
    LET key == AddrKey(address)
    IN  IF maxlim # NoLimit /\ timeout # NoLimit
        THEN \* checking mode
             LET latest_fails == st[key]
             IN  IF Len(latest_fails) > 0 /\ Len(latest_fails) >= maxlim
                 THEN IF t - latest_fails[Len(latest_fails)] < timeout
                      THEN [ret |-> TRUE, storage |-> st]
                      ELSE [ret |-> FALSE, storage |-> [st EXCEPT ![key] = <<>>]]
                 ELSE [ret |-> FALSE, storage |-> st]
        ELSE \* store the time of the latest fail
             [ret |-> FALSE, storage |-> [st EXCEPT ![key] = Append(@, t)]]

----------------------------------------------------------------------------
(* The ban list *)

\* a ban entry (name, reserved, compiled address pattern or None); the pattern
\* is modelled by the set of host strings it matches
Ban(name, haspat, hosts) == [name |-> name, haspat |-> haspat, hosts |-> hosts]

\* any(tup[0] == name for tup in bans)
NameBanned(bl, name) == \E b \in bl : b.name = name

\* any(tup[2].match(session.address) for tup in bans if tup[2]):
\* "yes", "no", or "TypeError" when a pattern is matched against a tuple address
AddressBanned(bl, address) ==
    IF ~(\E b \in bl : b.haspat) THEN "no"
    ELSE IF address.tuple THEN "TypeError"
    ELSE IF \E b \in bl : b.haspat /\ address.str \in b.hosts THEN "yes"
    ELSE "no"

\* the ban check made on the address alone
NameOrAddressBanned_address_only(bl, name, address) ==
    IF bl = {} THEN "no" ELSE AddressBanned(bl, address)

\* bans and (any(name...) or any(address...))
NameOrAddressBanned(bl, name, address) ==
    IF bl = {} THEN "no"
    ELSE IF NameBanned(bl, name) THEN "yes"
    ELSE AddressBanned(bl, address)

----------------------------------------------------------------------------
(* Results of the helpers. Each helper is written as a chain of steps, one   *)
(* operator per step of the code, each step handing what it computed to the  *)
(* next as an argument.                                                      *)

\* a helper's result: the world, the account returned (0 for None or False),
\* and raised: an exception left the helper
Ret(w, account, raised) == [w |-> w, account |-> account, raised |-> raised]

\* create_guest_account's result: the pair (enabled, account) and the world
GuestRet(enabled, w, account, raised) ==
    [enabled |-> enabled, w |-> w, account |-> account, raised |-> raised]

\* a command's result
Res(w, raised) == [w |-> w, raised |-> raised]

SetStorage(w, st) == [w EXCEPT !.storage = st]

----------------------------------------------------------------------------
(* create_normal_account *)

\* the ban check on the authenticated account
create_normal_account_banned(banned, w, s, account) ==
    CASE banned = "TypeError" -> Ret(w, 0, TRUE)
      [] banned = "yes" -> Ret(Disconnect(Msg(w, "banned"), s), 0, FALSE)
      [] OTHER -> Ret(w, account, FALSE)

\* account = AccountDB.objects.get_account_from_name(name)
\* if account: account.at_failed_login(session)
FailedLoginHook(w, named) ==
    IF named # 0 THEN Call(w, "at_failed_login", w.accounts[named].username) ELSE w

\* create_normal_account's failure branch without the throttle update
create_normal_account_failed_norecord(w, s, t, name) ==
    Ret(FailedLoginHook(Msg(w, "incorrect"), get_account_from_name(w.accounts, name)),
        0, FALSE)

\* no account matched: message, _throttle(session) in record mode, hook
create_normal_account_failed(w, s, t, name) ==
    Ret(FailedLoginHook(
            SetStorage(Msg(w, "incorrect"),
                       _throttle(w.storage, w.sessions[s].address, t,
                                 NoLimit, NoLimit).storage),
            get_account_from_name(w.accounts, name)),
        0, FALSE)

\* the ban list is consulted first, for the name as typed
create_normal_account_ban_first(account, w, s, t, name) ==
    IF NameOrAddressBanned(bans, LowerOf[name], w.sessions[s].address) = "yes"
    THEN Ret(Disconnect(Msg(w, "banned"), s), 0, FALSE)
    ELSE IF account = 0
    THEN create_normal_account_failed(w, s, t, name)
    ELSE Ret(w, account, FALSE)

\* account is what authenticate returned
create_normal_account_authenticated(account, w, s, t, name) ==
    IF account = 0
    THEN create_normal_account_failed(w, s, t, name)
    ELSE create_normal_account_banned(
             NameOrAddressBanned(bans, LowerOf[w.accounts[account].username],
                                 w.sessions[s].address),
             w, s, account)

\* chk is what the throttle check returned
create_normal_account_checked(chk, w, s, t, name, password) ==
    IF chk.ret
    THEN Ret(Msg(SetStorage(w, chk.storage), "throttled"), 0, FALSE)
    ELSE create_normal_account_authenticated(
             authenticate(w.accounts, name, password),
             Call(SetStorage(w, chk.storage), "authenticate", name), s, t, name)

create_normal_account(w, s, t, name, password) ==
    create_normal_account_checked(
        _throttle(w.storage, w.sessions[s].address, t, ThrottleMaxlim, ThrottleTimeout),
        w, s, t, name, password)

----------------------------------------------------------------------------
(* Settings and framework values the helpers consume *)

\* settings.GUEST_HOME and settings.DEFAULT_HOME, as ObjectDB.objects.get_id
\* resolves them
GUEST_HOME == "#2"
DEFAULT_HOME == "#2"
PERMISSION_GUEST_DEFAULT == "Guests"
PERMISSION_ACCOUNT_DEFAULT == "Players"
BASE_CHARACTER_TYPECLASS == "typeclasses.characters.Character"
BASE_GUEST_TYPECLASS == "typeclasses.accounts.Guest"

\* what the environment supplies to one command: whether the public channel
\* accepts the new account, the creation hook's ndb.home_room ("" for unset),
\* the value getrandbits(64) returns, and the db.desc_brief the character's
\* typeclass gives a new character ("" for none)
Env(chan_ok, home_room, rand) ==
    [chan_ok |-> chan_ok, home_room |-> home_room, rand |-> rand, desc_brief |-> ""]

\* the same environment with a typeclass that supplies a brief description
WithDescBrief(env, desc_brief) == [env EXCEPT !.desc_brief = desc_brief]

HexChars == "0123456789abcdef"

RECURSIVE HexDigits(_)
\* '%x' % n
HexDigits(n) ==
    IF n < 16 THEN CharAt(HexChars, n + 1)
    ELSE HexDigits(n \div 16) \o CharAt(HexChars, (n % 16) + 1)

RECURSIVE ZeroPad(_, _)
ZeroPad(s, width) == IF Len(s) >= width THEN s ELSE ZeroPad("0" \o s, width)

\* '%016x' % n
Hex16(n) == ZeroPad(HexDigits(n), 16)

----------------------------------------------------------------------------
(* _create_account and _create_character *)

NewAccount(accountname, password, permissions, typeclass, env) ==
    [username |-> accountname, password |-> password,
     permissions |-> permissions, typeclass |-> typeclass,
     FIRST_LOGIN |-> TRUE, subscribed |-> env.chan_ok,
     playable |-> <<>>, last_puppet |-> 0]

\* if not pchannel or not pchannel.connect(new_account): logger.log_err(...)
JoinChannel(w, env) == IF env.chan_ok THEN w ELSE Call(w, "log_err", "pchannel")

\* returns the world and account: the new account's id, 0 for False
_create_account(w, accountname, password, permissions, typeclass, env) ==
    IF IExact(w.accounts, accountname) # {}
    THEN \* create.create_account raises: the name is taken
         Ret(Call(Msg(w, "account_error"), "log_trace", "_create_account"), 0, FALSE)
    ELSE Ret(JoinChannel([w EXCEPT !.accounts =
                             Append(@, NewAccount(accountname, password, permissions,
                                                  typeclass, env))], env),
             Len(w.accounts) + 1, FALSE)

\* the three lock rules of a character cid owned by account pid
CharacterLocks(cid, pid) ==
    {[access |-> "puppet", cid |-> cid, pid |-> pid, perm |-> "immortal"],
     [access |-> "edit", cid |-> cid, pid |-> pid, perm |-> "wizard"],
     [access |-> "control", cid |-> cid, pid |-> pid, perm |-> "immortal"]}

\* if not new_character.db.desc_brief: the default brief description
DescBrief(supplied) ==
    IF supplied = "" THEN "It looks like a new creature on the block." ELSE supplied

NewCharacter(cid, key, pid, typeclass, home, permissions, env) ==
    [key |-> key, typeclass |-> typeclass, permissions |-> permissions,
     home |-> IF env.home_room # "" THEN env.home_room ELSE home,
     location |-> IF env.home_room # "" THEN env.home_room ELSE "",
     locks |-> CharacterLocks(cid, pid),
     desc_brief |-> DescBrief(env.desc_brief)]

\* _create_character without the _last_puppet assignment
_create_character_no_last_puppet(w, new_account, typeclass, home, permissions, env) ==
    [w EXCEPT !.characters =
                  Append(@, NewCharacter(Len(w.characters) + 1,
                                         w.accounts[new_account].username, new_account,
                                         typeclass, home, permissions, env)),
              !.accounts[new_account].playable = Append(@, Len(w.characters) + 1)]

\* returns the world
_create_character(w, new_account, typeclass, home, permissions, env) ==
    [w EXCEPT !.characters =
                  Append(@, NewCharacter(Len(w.characters) + 1,
                                         w.accounts[new_account].username, new_account,
                                         typeclass, home, permissions, env)),
              !.accounts[new_account].playable = Append(@, Len(w.characters) + 1),
              !.accounts[new_account].last_puppet = Len(w.characters) + 1]

----------------------------------------------------------------------------
(* create_guest_account *)

RECURSIVE GuestScan(_, _, _, _)
\* for name in settings.GUEST_LIST:
\*     if not AccountDB.objects.filter(username__iexact=accountname).count():
\*         accountname = name; break
\* the filter is made on accountname, the loop's result so far, not on name
GuestScan(accs, guest_list, i, accountname) ==
    IF i > Len(guest_list) THEN accountname
    ELSE IF Cardinality(IExact(accs, accountname)) = 0 THEN guest_list[i]
    ELSE GuestScan(accs, guest_list, i + 1, accountname)

\* if new_account: _create_character(...); return True, new_account
create_guest_account_made(made, env) ==
    GuestRet(TRUE,
             IF made.account # 0
             THEN _create_character(made.w, made.account, BASE_CHARACTER_TYPECLASS,
                                    GUEST_HOME, PERMISSION_GUEST_DEFAULT, env)
             ELSE made.w,
             made.account, FALSE)

\* accountname is what the scan of the guest list found
create_guest_account_named(accountname, w, env) ==
    IF accountname = None \/ accountname = ""
    THEN GuestRet(TRUE, Msg(w, "guests_in_use"), 0, FALSE)
    ELSE create_guest_account_made(
             _create_account(w, accountname, Hex16(env.rand),
                             PERMISSION_GUEST_DEFAULT, BASE_GUEST_TYPECLASS, env),
             env)

\* banned is the outcome of the address ban check
create_guest_account_banned(banned, w, s, env) ==
    CASE banned = "TypeError" -> GuestRet(TRUE, w, 0, TRUE)
      [] banned = "yes" -> GuestRet(TRUE, Disconnect(Msg(w, "banned"), s), 0, FALSE)
      [] OTHER -> create_guest_account_named(
                      GuestScan(w.accounts, settings.GUEST_LIST, 1, None), w, env)

\* create_guest_account without the GUEST_ENABLED test
create_guest_account_always(w, s, env) ==
    create_guest_account_banned(
        IF bans = {} THEN "no" ELSE AddressBanned(bans, w.sessions[s].address),
        w, s, env)

create_guest_account(w, s, env) ==
    IF ~settings.GUEST_ENABLED
    THEN GuestRet(FALSE, w, 0, FALSE)
    ELSE create_guest_account_banned(
             IF bans = {} THEN "no" ELSE AddressBanned(bans, w.sessions[s].address),
             w, s, env)

----------------------------------------------------------------------------
(* CmdUnconnectedConnect.func *)

\* connect handing whatever create_normal_account returned to login
connect_normal_always(res, s) == Res(Login(res.w, s, res.account), FALSE)

\* account = create_normal_account(...); if account: login(session, account)
connect_normal(res, s) ==
    IF res.account # 0
    THEN Res(Login(res.w, s, res.account), FALSE)
    ELSE Res(res.w, res.raised)

\* if len(parts) != 2: usage; else name, password = parts
connect_parts(parts, w, s, t) ==
    IF Len(parts) # 2
    THEN Res(Msg(w, "usage_connect"), FALSE)
    ELSE connect_normal(create_normal_account(w, s, t, parts[1], parts[2]), s)

\* if new_account: session.sessionhandler.login(session, new_account)
GuestLoggedIn(guest, s) ==
    IF guest.account # 0 THEN Login(guest.w, s, guest.account) ELSE guest.w

\* guest is what create_guest_account returned
connect_guest(guest, parts, s, t) ==
    IF guest.raised THEN Res(guest.w, TRUE)
    ELSE IF guest.enabled THEN Res(GuestLoggedIn(guest, s), FALSE)
    ELSE connect_parts(parts, GuestLoggedIn(guest, s), s, t)

\* quoted: the double-quote parts; parts: those, split once when there is one
connect_split(quoted, parts, w, s, t, env) ==
    IF Len(quoted) = 1 /\ Len(parts) = 1 /\ LowerOf[parts[1]] = "guest"
    THEN connect_guest(create_guest_account(w, s, env), parts, s, t)
    ELSE connect_parts(parts, w, s, t)

connect_quoted(quoted, w, s, t, env) ==
    connect_split(quoted,
                  IF Len(quoted) = 1 THEN SplitNone1Of[quoted[1]] ELSE quoted,
                  w, s, t, env)

\* connect going on whatever the throttle check returned
connect_checked_through(chk, w, s, t, args, env) ==
    connect_quoted(QuotedPartsOf[args], SetStorage(w, chk.storage), s, t, env)

\* chk is what the throttle check returned
connect_checked(chk, w, s, t, args, env) ==
    IF chk.ret
    THEN Res(Msg(SetStorage(w, chk.storage), "throttled"), FALSE)
    ELSE connect_quoted(QuotedPartsOf[args], SetStorage(w, chk.storage), s, t, env)

\* the world after connect, and whether an exception left the command
ConnectResult(w, s, t, args, env) ==
    connect_checked(
        _throttle(w.storage, w.sessions[s].address, t, ThrottleMaxlim, ThrottleTimeout),
        w, s, t, args, env)

----------------------------------------------------------------------------
(* CmdUnconnectedCreate.func *)

\* settings.GUEST_LIST and accountname.lower() in (guest.lower() for guest in GUEST_LIST)
ReservedName(guest_list, accountname) ==
    /\ Len(guest_list) > 0
    /\ \E i \in 1..Len(guest_list) : LowerOf[guest_list[i]] = LowerOf[accountname]

\* if MULTISESSION_MODE < 2: _create_character(...)
create_character_for(made, env) ==
    IF made.account # 0 /\ settings.MULTISESSION_MODE < 2
    THEN _create_character(made.w, made.account, BASE_CHARACTER_TYPECLASS,
                           DEFAULT_HOME, PERMISSION_ACCOUNT_DEFAULT, env)
    ELSE made.w

\* the welcome message, worded by whether the name holds a space
create_welcome(w, account, accountname) ==
    IF account = 0 THEN w
    ELSE IF InStr(" ", accountname) THEN Msg(w, "welcome_quoted")
    ELSE Msg(w, "welcome_plain")

\* made is what _create_account returned
create_made(made, accountname, env) ==
    Res(create_welcome(create_character_for(made, env), made.account, accountname),
        FALSE)

\* create making the account before it turns a banned caller away
create_banned_late(banned, w, s, accountname, password, env) ==
    CASE banned = "TypeError" -> Res(w, TRUE)
      [] banned = "yes" ->
             Res(Disconnect(Msg(_create_account(w, accountname, password,
                                                PERMISSION_ACCOUNT_DEFAULT, None, env).w,
                                "banned"), s), FALSE)
      [] OTHER -> create_made(
                      _create_account(w, accountname, password,
                                      PERMISSION_ACCOUNT_DEFAULT, None, env),
                      accountname, env)

\* banned is the outcome of the name and address ban check
create_banned(banned, w, s, accountname, password, env) ==
    CASE banned = "TypeError" -> Res(w, TRUE)
      [] banned = "yes" -> Res(Disconnect(Msg(w, "banned"), s), FALSE)
      [] OTHER -> create_made(
                      _create_account(w, accountname, password,
                                      PERMISSION_ACCOUNT_DEFAULT, None, env),
                      accountname, env)

\* create accepting a password of 3 characters
create_named_short_password(accountname, w, s, password, env) ==
    IF IExact(w.accounts, accountname) # {}
    THEN Res(Msg(w, "exists"), FALSE)
    ELSE IF ReservedName(settings.GUEST_LIST, accountname)
    THEN Res(Msg(w, "reserved"), FALSE)
    ELSE IF ~MatchesAllowedOf[password] \/ ~(MinPasswordLen <= Len(password))
    THEN Res(Msg(w, "bad_password"), FALSE)
    ELSE create_banned(
             NameOrAddressBanned(bans, LowerOf[accountname], w.sessions[s].address),
             w, s, accountname, password, env)

\* create without the test for an existing name
create_named_unchecked(accountname, w, s, password, env) ==
    IF ReservedName(settings.GUEST_LIST, accountname)
    THEN Res(Msg(w, "reserved"), FALSE)
    ELSE IF ~MatchesAllowedOf[password] \/ ~(MinPasswordLen < Len(password))
    THEN Res(Msg(w, "bad_password"), FALSE)
    ELSE create_banned(
             NameOrAddressBanned(bans, LowerOf[accountname], w.sessions[s].address),
             w, s, accountname, password, env)

\* accountname is the name with its whitespace collapsed
create_named(accountname, w, s, password, env) ==
    IF IExact(w.accounts, accountname) # {}
    THEN Res(Msg(w, "exists"), FALSE)
    ELSE IF ReservedName(settings.GUEST_LIST, accountname)
    THEN Res(Msg(w, "reserved"), FALSE)
    ELSE IF ~MatchesAllowedOf[password] \/ ~(MinPasswordLen < Len(password))
    THEN Res(Msg(w, "bad_password"), FALSE)
    ELSE create_banned(
             NameOrAddressBanned(bans, LowerOf[accountname], w.sessions[s].address),
             w, s, accountname, password, env)

\* create testing the length of the collapsed name
create_parts_collapsed(parts, w, s, env) ==
    IF Len(parts) # 2
    THEN Res(Msg(w, "usage_create"), FALSE)
    ELSE IF \/ ~MatchesAllowedOf[parts[1]]
            \/ ~(0 < Len(CollapseOf[parts[1]]) /\ Len(CollapseOf[parts[1]]) <= MaxNameLen)
    THEN Res(Msg(w, "bad_name"), FALSE)
    ELSE create_named(CollapseOf[parts[1]], w, s, parts[2], env)

\* parts: accountname, password = parts
create_parts(parts, w, s, env) ==
    IF Len(parts) # 2
    THEN Res(Msg(w, "usage_create"), FALSE)
    ELSE IF \/ ~MatchesAllowedOf[parts[1]]
            \/ ~(0 < Len(parts[1]) /\ Len(parts[1]) <= MaxNameLen)
    THEN Res(Msg(w, "bad_name"), FALSE)
    ELSE create_named(CollapseOf[parts[1]], w, s, parts[2], env)

create_quoted(quoted, w, s, env) ==
    create_parts(IF Len(quoted) = 1 THEN SplitNone1Of[quoted[1]] ELSE quoted, w, s, env)

\* the world after create, and whether an exception left the command
CreateResult(w, s, args, env) == create_quoted(QuotedPartsOf[StripOf[args]], w, s, env)

----------------------------------------------------------------------------
(* Exits and timed movement (src/typeclasses/exits.py). Objects are named   *)
(* by strings; "" stands for None.                                           *)

\* MOVE_DELAY = dict(stroll=16, walk=8, run=4, sprint=2, scamper=1)
MOVE_DELAY == [stroll |-> 16, walk |-> 8, run |-> 4, sprint |-> 2, scamper |-> 1]

\* traversing_object.db.move_speed or 'walk'
SpeedOrWalk(move_speed) == IF move_speed = "" THEN "walk" ELSE move_speed

\* every speed takes walk's time
MoveDelay_walk(move_speed) == 8

\* MOVE_DELAY.get(move_speed, 8)
MoveDelay(move_speed) ==
    IF move_speed \in DOMAIN MOVE_DELAY THEN MOVE_DELAY[move_speed] ELSE 8

\* the rooms, and the exits between them: a path and a plain exit each way
Rooms == {"Forest", "Glade"}
ExitNames == {"trail", "gate", "trail back"}

\* an exit: where it stands, where it leads, db.is_path, db.err_traverse
NewExit(e, err_traverse) ==
    [location |-> IF e = "trail back" THEN "Glade" ELSE "Forest",
     destination |-> IF e = "trail back" THEN "Forest" ELSE "Glade",
     is_path |-> e # "gate",
     err_traverse |-> err_traverse]

\* the traveller as the game starts: in a room, no speed set, not moving
NewTraveller ==
    [location |-> "Forest", move_speed |-> "", currently_moving |-> 0,
     last_location |-> "", last_room |-> "", home |-> "Glade"]

\* obj.destination: an exit's destination, None for a room
DestinationOf(xs, obj) == IF obj \in DOMAIN xs THEN xs[obj].destination ELSE ""

\* the state a traversal step works on and what it returned: the traveller,
\* the delayed calls, the events, the return value and whether it raised
Trav(tr, ds, events, ret, raised) ==
    [tr |-> tr, ds |-> ds, events |-> events, ret |-> ret, raised |-> raised]

\* traversing_object.move_to(destination): the traveller at destination
MovedTo(tr, destination) == [tr EXCEPT !.location = destination]

\* the hook records every prior location as the last room
at_after_traverse_any_room(xs, tr, source_loc) ==
    [tr EXCEPT !.last_location = source_loc, !.last_room = source_loc]

\* Exit.at_after_traverse(traveller, source_loc)
at_after_traverse(xs, tr, source_loc) ==
    [tr EXCEPT !.last_location = source_loc,
               !.last_room = IF DestinationOf(xs, source_loc) = ""
                             THEN source_loc ELSE @]

\* a call utils.delay made: its delay, the time waited, the exit and target of
\* its move_callback, and its state: "pending", "called" or "cancelled"
Deferred(delay, self, target_location) ==
    [delay |-> delay, waited |-> 0, self |-> self,
     target_location |-> target_location, state |-> "pending"]

\* the arrival is scheduled and its handle is not kept
at_traverse_delayed_unmarked(self, tr, ds, events, target_location) ==
    Trav(tr,
         Append(ds, Deferred(MoveDelay(SpeedOrWalk(tr.move_speed)), self,
                             target_location)),
         Append(events, Ev("delay", self)), "None", FALSE)

\* deferred = utils.delay(move_delay, callback=move_callback)
\* traversing_object.ndb.currently_moving = deferred
at_traverse_delayed(self, tr, ds, events, target_location) ==
    Trav([tr EXCEPT !.currently_moving = Len(ds) + 1],
         Append(ds, Deferred(MoveDelay(SpeedOrWalk(tr.move_speed)), self,
                             target_location)),
         Append(events, Ev("delay", self)), "None", FALSE)

\* the path branch: announce, step into the exit unless inside, then delay
at_traverse_path(xs, self, tr, ds, target_location, success) ==
    IF tr.location = target_location
    THEN Trav(tr, ds, <<>>, "True", FALSE)
    ELSE IF tr.location = self
    THEN at_traverse_delayed(self, tr, ds, <<Ev("msg", "start_moving")>>,
                             target_location)
    ELSE IF ~success
    THEN Trav(tr, ds, <<Ev("msg", "start_moving")>>, "False", FALSE)
    ELSE at_traverse_delayed(self,
             at_after_traverse(xs, MovedTo(tr, self), tr.location), ds,
             <<Ev("msg", "start_moving"), Ev("move_to", self)>>, target_location)

\* the plain branch: move_to(self) takes the traveller to the exit's destination
at_traverse_plain(xs, self, tr, ds, success) ==
    IF success
    THEN Trav(at_after_traverse(xs, MovedTo(tr, xs[self].destination), tr.location),
              ds, <<Ev("move_to", xs[self].destination)>>, "True", FALSE)
    ELSE Trav(tr, ds, <<>>, "False", FALSE)

\* a traversal that heeds neither the marker nor the veto of at_before_move
at_traverse_unblocked(xs, self, tr, ds, target_location, allowed, success) ==
    IF ~xs[self].is_path
    THEN at_traverse_plain(xs, self, tr, ds, success)
    ELSE at_traverse_path(xs, self, tr, ds, target_location, success)

\* Exit.at_traverse(traversing_object, target_location); allowed is what
\* at_before_move returned, success what move_to returned
at_traverse(xs, self, tr, ds, target_location, allowed, success) ==
    IF tr.currently_moving # 0
    THEN Trav(tr, ds, <<Ev("msg", "already_moving")>>, "None", FALSE)
    ELSE IF ~allowed
    THEN Trav(tr, ds, <<>>, "False", FALSE)
    ELSE IF ~xs[self].is_path
    THEN at_traverse_plain(xs, self, tr, ds, success)
    ELSE at_traverse_path(xs, self, tr, ds, target_location, success)

\* the delayed call d has been made
Called(ds, d) == [ds EXCEPT ![d].state = "called"]

\* an arrival that moves the traveller and leaves the marker and the last
\* location as they were
move_callback_moves_only(xs, tr, ds, d, success) ==
    IF success
    THEN Trav([tr EXCEPT !.location = ds[d].target_location], Called(ds, d),
              <<Ev("move_to", ds[d].target_location)>>, "None", FALSE)
    ELSE Trav(tr, Called(ds, d), <<Ev("at_failed_traverse", ds[d].self)>>,
              "None", FALSE)

\* move_callback of delayed call d, made when its delay has passed; success is
\* what move_to(target_location) returned. The exit has no attribute caller, so
\* self.caller.msg raises AttributeError; so does source_loc.destination in
\* at_after_traverse for a traveller who set out from nowhere.
move_callback(xs, tr, ds, d, success) ==
    IF success /\ tr.location = ""
    THEN Trav([tr EXCEPT !.location = ds[d].target_location,
                         !.currently_moving = 0, !.last_location = ""],
              Called(ds, d), <<Ev("move_to", ds[d].target_location)>>, "None", TRUE)
    ELSE IF success
    THEN Trav(at_after_traverse(xs,
                  [tr EXCEPT !.location = ds[d].target_location,
                             !.currently_moving = 0],
                  tr.location),
              Called(ds, d), <<Ev("move_to", ds[d].target_location)>>, "None", FALSE)
    ELSE IF xs[ds[d].self].err_traverse # ""
    THEN Trav(tr, Called(ds, d), <<>>, "None", TRUE)
    ELSE Trav(tr, Called(ds, d), <<Ev("at_failed_traverse", ds[d].self)>>,
              "None", FALSE)

\* currently_moving.cancel(): a pending call is disabled and the reactor stops
\* counting its time; a call already made is left as it is
Cancel(ds, d) ==
    IF ds[d].state = "pending"
    THEN [ds EXCEPT ![d].state = "cancelled", ![d].waited = 0]
    ELSE ds

\* stop forgets the marker and leaves the arrival scheduled
CmdStopResult_no_cancel(tr, ds) ==
    IF tr.currently_moving # 0
    THEN Trav([tr EXCEPT !.currently_moving = 0], ds,
              <<Ev("msg", "stop_moving")>>, "None", FALSE)
    ELSE Trav(tr, ds, <<Ev("msg", "not_moving")>>, "None", FALSE)

\* CmdStop.func
CmdStopResult(tr, ds) ==
    IF tr.currently_moving # 0
    THEN Trav([tr EXCEPT !.currently_moving = 0], Cancel(ds, tr.currently_moving),
              <<Ev("msg", "stop_moving")>>, "None", FALSE)
    ELSE Trav(tr, ds, <<Ev("msg", "not_moving")>>, "None", FALSE)

\* SPEED_DESCS = dict(stroll='strolling', walk='walking', ...)
SPEED_DESCS ==
    [stroll |-> "strolling", walk |-> "walking", run |-> "running",
     sprint |-> "sprinting", scamper |-> "scampering"]

\* the lock on_path() of stop and continue: the caller is inside a path exit
on_path(xs, tr) == tr.location \in DOMAIN xs /\ xs[tr.location].is_path

\* the departure of CmdContinue.func: move_to(destination), and on success
\* start.at_after_traverse(caller, start)
continue_move(xs, tr, ds, events, success) ==
    IF success
    THEN Trav(at_after_traverse(xs, MovedTo(tr, DestinationOf(xs, tr.location)),
                                tr.location),
              ds, Append(events, Ev("move_to", DestinationOf(xs, tr.location))),
              "None", FALSE)
    ELSE Trav(tr, ds, events, "None", FALSE)

\* CmdContinue.func; SPEED_DESCS[caller.db.move_speed] raises KeyError when no
\* speed is stored
CmdContinueResult(xs, tr, ds, success) ==
    IF DestinationOf(xs, tr.location) = ""
    THEN Trav(tr, ds, <<Ev("msg", "not_decided")>>, "None", FALSE)
    ELSE IF tr.currently_moving # 0
    THEN Trav(tr, ds, <<Ev("msg", "already_moving")>>, "None", FALSE)
    ELSE IF tr.move_speed \notin DOMAIN SPEED_DESCS
    THEN Trav(tr, ds, <<Ev("msg_contents", "is_going")>>, "None", TRUE)
    ELSE continue_move(xs, tr, ds,
                       <<Ev("msg_contents", "is_going"),
                         Ev("msg", "begin_" \o SPEED_DESCS[tr.move_speed])>>,
                       success)

\* the lines given to speed
SpeedArgs == {"", " run", " Stroll ", " sprint", " scamper", " walk", " crawl"}

\* self.args.lower().strip()
SpeedOf == [a \in SpeedArgs |-> Strip(Lower(a))]

\* CmdSpeed.func; with no argument and no speed set it looks up SPEED_DESCS[8]
\* and raises KeyError
CmdSpeedResult(tr, ds, args) ==
    IF args = ""
    THEN IF tr.move_speed = ""
         THEN Trav(tr, ds, <<>>, "None", TRUE)
         ELSE Trav(tr, ds, <<Ev("msg", "speed_is_" \o SPEED_DESCS[tr.move_speed])>>,
                   "None", FALSE)
    ELSE IF SpeedOf[args] \notin DOMAIN SPEED_DESCS
    THEN Trav(tr, ds, <<Ev("msg", "usage_speed")>>, "None", FALSE)
    ELSE IF tr.move_speed = SpeedOf[args]
    THEN Trav(tr, ds, <<Ev("msg", "speed_already_" \o SPEED_DESCS[SpeedOf[args]])>>,
              "None", FALSE)
    ELSE Trav([tr EXCEPT !.move_speed = SpeedOf[args]], ds,
              <<Ev("msg", "speed_now_" \o SPEED_DESCS[SpeedOf[args]])>>, "None", FALSE)

\* here.exits: the exits standing in a room, in the order the room lists them
ExitOrder == <<"trail", "gate", "trail back">>

\* obj.location of a place: an exit's origin, None for a room
LocationOf(xs, obj) == IF obj \in DOMAIN xs THEN xs[obj].location ELSE ""

\* where move_to(destination) takes the traveller: through an exit to its
\* destination (use_destination is True by default)
MoveTarget(xs, destination) ==
    IF DestinationOf(xs, destination) # "" THEN DestinationOf(xs, destination)
    ELSE destination

\* char.move_to(destination) within back, with the events so far
back_move(xs, tr, ds, events, destination, moved) ==
    IF moved
    THEN Trav(MovedTo(tr, MoveTarget(xs, destination)), ds,
              Append(events, Ev("move_to", MoveTarget(xs, destination))),
              "None", FALSE)
    ELSE Trav(tr, ds, events, "None", FALSE)

\* the last room is preferred to the last location
SafePlace_room_first(tr) ==
    IF tr.last_room # "" THEN tr.last_room
    ELSE IF tr.last_location # "" THEN tr.last_location
    ELSE tr.home

\* char.ndb.last_location or char.db.last_room or char.home
SafePlace(tr) ==
    IF tr.last_location # "" THEN tr.last_location
    ELSE IF tr.last_room # "" THEN tr.last_room
    ELSE tr.home

\* one command run within another: its state, after the events so far
Joined(r, q) == Trav(q.tr, q.ds, r.events \o q.events, "None", r.raised \/ q.raised)

\* char.execute_cmd(e.name): the exit's command runs at_traverse if the exit is
\* beside the traveller or around them, else the name is no command
back_exec(xs, r, e, allowed, success) ==
    IF r.tr.location \in {xs[e].location, e}
    THEN Joined(Trav(r.tr, r.ds, Append(r.events, Ev("execute_cmd", e)), "None",
                     r.raised),
                at_traverse(xs, e, r.tr, r.ds, xs[e].destination,
                            allowed[e], success[e]))
    ELSE Trav(r.tr, r.ds,
              r.events \o <<Ev("execute_cmd", e), Ev("msg", "not_available")>>,
              "None", r.raised)

\* for e in exits: if e.destination == last_room: char.execute_cmd(e.name)
RECURSIVE back_exits(_, _, _, _, _, _, _)
back_exits(xs, r, here, last_room, i, allowed, success) ==
    IF i > Len(ExitOrder) THEN r
    ELSE back_exits(xs,
                    IF /\ xs[ExitOrder[i]].location = here
                       /\ xs[ExitOrder[i]].destination = last_room
                    THEN back_exec(xs, r, ExitOrder[i], allowed, success)
                    ELSE r,
                    here, last_room, i + 1, allowed, success)

\* back in a room that is not the last room: try the exits, or go straight
back_room(xs, tr, ds, allowed, success, moved) ==
    IF \E e \in DOMAIN xs : xs[e].location = tr.location
    THEN back_exits(xs, Trav(tr, ds, <<>>, "None", FALSE), tr.location,
                    tr.last_room, 1, allowed, success)
    ELSE back_move(xs, tr, ds, <<Ev("msg", "go_back")>>, tr.last_room, moved)

\* back inside something without destination
back_inside(xs, tr, ds, allowed, success, moved) ==
    IF tr.last_room # ""
    THEN IF tr.last_room # tr.location
         THEN back_room(xs, tr, ds, allowed, success, moved)
         ELSE Trav(tr, ds, <<>>, "None", FALSE)
    ELSE IF LocationOf(xs, tr.location) # ""
    THEN back_move(xs, tr, ds, <<Ev("msg", "leave")>>,
                   LocationOf(xs, tr.location), moved)
    ELSE Trav(tr, ds, <<Ev("msg", "can_not_leave")>>, "None", FALSE)

\* back turns around without stopping first
back_stop_skipped(xs, tr, ds) == Trav(tr, ds, <<>>, "None", FALSE)

\* char.execute_cmd('stop'), open under the lock on_path()
back_stop(xs, tr, ds) ==
    IF on_path(xs, tr) THEN CmdStopResult(tr, ds)
    ELSE Trav(tr, ds, <<Ev("msg", "not_available")>>, "None", FALSE)

\* back inside an exit: turn around and move to where the exit stands
back_turn(xs, r, moved) ==
    back_move(xs, r.tr, r.ds, Append(r.events, Ev("msg", "turn_around")),
              LocationOf(xs, r.tr.location), moved)

\* CmdBack.func; allowed and success are what at_before_move and move_to
\* return within each exit's command, moved what back's own move_to returns
CmdBackResult(xs, tr, ds, allowed, success, moved) ==
    IF tr.location = ""
    THEN back_move(xs, tr, ds, <<>>, SafePlace(tr), moved)
    ELSE IF DestinationOf(xs, tr.location) = ""
    THEN back_inside(xs, tr, ds, allowed, success, moved)
    ELSE IF tr.currently_moving # 0
    THEN back_turn(xs, back_stop(xs, tr, ds), moved)
    ELSE back_turn(xs, Trav(tr, ds, <<>>, "None", FALSE), moved)

----------------------------------------------------------------------------
(* Command set assembly (src/NOWMU/NOW/commands/default_cmdsets.py). A       *)
(* command is its key and the class it is made from; a bundle is a set of    *)
(* commands, in which a key names at most one command.                        *)

Cmd(key, cls) == [key |-> key, cls |-> cls]

\* the names the module typeclasses/exits.py holds once imported
ExitsModuleNames ==
    {"DefaultExit", "utils", "Command", "lazy_property", "TraitHandler",
     "EffectHandler", "MOVE_DELAY", "Exit", "SPEED_DESCS", "CmdSpeed", "CmdStop",
     "CmdContinue", "CmdBack"}

\* the commands among them, by class name
ExitsCommands ==
    [CmdSpeed |-> Cmd("speed", "exits.CmdSpeed"),
     CmdStop |-> Cmd("stop", "exits.CmdStop"),
     CmdContinue |-> Cmd("continue", "exits.CmdContinue"),
     CmdBack |-> Cmd("back", "exits.CmdBack")]

\* from typeclasses.exits import CmdStop, CmdContinue, CmdBack, CmdSetSpeed
ImportedFromExits == {"CmdStop", "CmdContinue", "CmdBack", "CmdSetSpeed"}

\* importing the command set module: a name the exits module does not hold
\* raises ImportError
ImportCmdsetModule ==
    IF ImportedFromExits \subseteq ExitsModuleNames THEN "loaded" ELSE "ImportError"

\* what an imported name is bound to
FromExits(name) ==
    IF name \in DOMAIN ExitsCommands THEN ExitsCommands[name] ELSE Cmd("", name)

\* the four bundles
Bundles == {"Character", "Player", "Unloggedin", "Session"}

\* default_cmds.<Class>, a command of the framework
DefaultCmd(key, cls) == Cmd(key, "default_cmds." \o cls)

\* what super().at_cmdset_creation() puts into the character bundle in every
\* version of the framework, and what only some versions add
DefaultCharacterCmds ==
    {DefaultCmd("look", "CmdLook"), DefaultCmd("get", "CmdGet"),
     DefaultCmd("drop", "CmdDrop"), DefaultCmd("access", "CmdAccess"),
     DefaultCmd("inventory", "CmdInventory"), DefaultCmd("pose", "CmdPose"),
     DefaultCmd("say", "CmdSay")}
OptionalCharacterCmds ==
    {DefaultCmd("home", "CmdHome"), DefaultCmd("give", "CmdGive"),
     DefaultCmd("nick", "CmdNick")}

DefaultPlayerCmds ==
    {DefaultCmd("addcom", "CmdAddCom"), DefaultCmd("allcom", "CmdAllCom"),
     DefaultCmd("@cboot", "CmdCBoot"), DefaultCmd("page", "CmdPage"),
     DefaultCmd("@ccreate", "CmdChannelCreate"), DefaultCmd("@cdestroy", "CmdCdestroy"),
     DefaultCmd("delcom", "CmdDelCom"), DefaultCmd("@cdesc", "CmdCdesc"),
     DefaultCmd("@clock", "CmdClock"), DefaultCmd("@cemit", "CmdCemit"),
     DefaultCmd("@cwho", "CmdCWho"), DefaultCmd("@quit", "CmdQuit"),
     DefaultCmd("who", "CmdWho"), DefaultCmd("@ooc", "CmdOOC")}

DefaultUnloggedinCmds ==
    {DefaultCmd("connect", "CmdUnconnectedConnect"),
     DefaultCmd("create", "CmdUnconnectedCreate"),
     DefaultCmd("quit", "CmdUnconnectedQuit"),
     DefaultCmd("look", "CmdUnconnectedLook"),
     DefaultCmd("help", "CmdUnconnectedHelp")}

DefaultSessionCmds == {DefaultCmd("@sessions", "CmdSessions")}

\* self.remove(cmd): the command of that key leaves the bundle, if there is one
CmdSetRemove(cmds, cmd) == {c \in cmds : c.key # cmd.key}

\* self.add(cmd): the command takes the place of the one of its key
CmdSetAdd(cmds, cmd) == CmdSetRemove(cmds, cmd) \cup {cmd}

RECURSIVE RemoveAll(_, _)
RemoveAll(cmds, seq) ==
    IF seq = <<>> THEN cmds ELSE RemoveAll(CmdSetRemove(cmds, Head(seq)), Tail(seq))

RECURSIVE AddAll(_, _)
AddAll(cmds, seq) ==
    IF seq = <<>> THEN cmds ELSE AddAll(CmdSetAdd(cmds, Head(seq)), Tail(seq))

\* the commands of commands/command.py, by the keys the bundles list
OwnCmd(key, cls) == Cmd(key, "command." \o cls)

\* the commands of commands/exitdirections.py
CompassCmds ==
    <<Cmd("NW", "exitdirections.CmdExitNorthwest"),
      Cmd("N", "exitdirections.CmdExitNorth"),
      Cmd("NE", "exitdirections.CmdExitNortheast"),
      Cmd("E", "exitdirections.CmdExitEast"),
      Cmd("SE", "exitdirections.CmdExitSoutheast"),
      Cmd("S", "exitdirections.CmdExitSouth"),
      Cmd("SW", "exitdirections.CmdExitSouthwest"),
      Cmd("W", "exitdirections.CmdExitWest")>>

\* CharacterCmdSet.at_cmdset_creation, after super's
CharacterCmdSet(cmds) ==
    AddAll(RemoveAll(cmds, <<DefaultCmd("access", "CmdAccess"),
                             DefaultCmd("get", "CmdGet"),
                             DefaultCmd("drop", "CmdDrop")>>),
           <<OwnCmd("look", "CmdLook"), OwnCmd("inventory", "CmdInventory"),
             OwnCmd("pose", "CmdPose"), OwnCmd("say", "CmdSay"),
             OwnCmd("ooc", "CmdOoc"), OwnCmd("spoof", "CmdSpoof"),
             OwnCmd("verb", "CmdVerb"),
             FromExits("CmdStop"), FromExits("CmdSetSpeed"),
             FromExits("CmdContinue"), FromExits("CmdBack")>> \o CompassCmds)

\* PlayerCmdSet.at_cmdset_creation, after super's
PlayerCmdSet(cmds) ==
    AddAll(RemoveAll(cmds, <<DefaultCmd("addcom", "CmdAddCom"),
                             DefaultCmd("allcom", "CmdAllCom"),
                             DefaultCmd("@cboot", "CmdCBoot"),
                             DefaultCmd("page", "CmdPage"),
                             DefaultCmd("@ccreate", "CmdChannelCreate"),
                             DefaultCmd("@cdestroy", "CmdCdestroy"),
                             DefaultCmd("delcom", "CmdDelCom"),
                             DefaultCmd("@cdesc", "CmdCdesc"),
                             DefaultCmd("@clock", "CmdClock"),
                             DefaultCmd("@cemit", "CmdCemit"),
                             DefaultCmd("@cwho", "CmdCWho")>>),
           <<OwnCmd("quit", "CmdQuit"), OwnCmd("who", "CmdWho"),
             OwnCmd("access", "CmdAccess"), OwnCmd("sysinfo", "CmdSysinfo"),
             OwnCmd("channels", "CmdChannels")>>)

\* UnloggedinCmdSet.at_cmdset_creation, after super's
UnloggedinCmdSet(cmds) == CmdSetAdd(cmds, Cmd("who", "prelogin.CmdWhoUs"))

\* SessionCmdSet.at_cmdset_creation, after super's
SessionCmdSet(cmds) == cmds

\* at_cmdset_creation of bundle b over the framework's default commands
at_cmdset_creation(b, cmds) ==
    CASE b = "Character" -> CharacterCmdSet(cmds)
      [] b = "Player" -> PlayerCmdSet(cmds)
      [] b = "Unloggedin" -> UnloggedinCmdSet(cmds)
      [] OTHER -> SessionCmdSet(cmds)

\* a bundle not yet made, over the framework's default commands
NewCmdSet(default) == [default |-> default, commands |-> {}, state |-> "none"]

\* the bundle the game gets: the module's when it was imported; when the import
\* failed, the framework's default bundle if it falls back to one, else an
\* empty error bundle
GetCmdSet(module, b, cs, fallback) ==
    IF module = "loaded"
    THEN [cs EXCEPT !.commands = at_cmdset_creation(b, cs.default),
                    !.state = "assembled"]
    ELSE IF fallback
    THEN [cs EXCEPT !.commands = cs.default, !.state = "fallback"]
    ELSE [cs EXCEPT !.commands = {}, !.state = "error"]

----------------------------------------------------------------------------
(* The process pool plugin (src/contrib/procpools/python_procpool_plugin.py) *)

PROCPOOL_MIN_NPROC == 5
PROCPOOL_MAX_NPROC == 20
PROCPOOL_TIMEOUT == 15
\* set by the module and passed to nothing
PROCPOOL_IDLETIME == 20
PROCPOOL_PORT == 5001
PROCPOOL_INTERFACE == "0.0.0.0"
SERVICE_NAME == "PythonProcPool"

\* recycleAfter=500
RecycleAfter == 500

\* the idle time of a pool that is given none
PoolMaxIdle == 20

\* the server before its services start: PROCPOOL_ENABLED, PROCPOOL_DEBUG,
\* os.name and server.services
NewServer(enabled, debug, os_name) ==
    [enabled |-> enabled, debug |-> debug, os_name |-> os_name,
     started |-> FALSE, services |-> <<>>]

\* ampoule_main.ProcessStarter(...)
ProcessStarter(srv) ==
    [path |-> None, uid |-> None, gid |-> None,
     bootstrap |-> IF srv.debug THEN "log.startLogging(sys.stderr)" ELSE "",
     childReactor |-> IF srv.os_name = "nt" THEN "select" ELSE "epoll"]

\* ampoule_pool.ProcessPool(name, min, max, recycleAfter, timeout, ampChild, starter)
ProcessPool(name, min, max, recycleAfter, timeout, ampChild, starter) ==
    [name |-> name, min |-> min, max |-> max, recycleAfter |-> recycleAfter,
     timeout |-> timeout, maxIdle |-> PoolMaxIdle, ampChild |-> ampChild,
     starter |-> starter]

\* ampoule_service.AMPouleService(pool, child, port, interface), then setName
AMPouleService(pool, child, port, interface, name) ==
    [name |-> name, pool |-> pool, child |-> child, port |-> port,
     interface |-> interface]

\* the plugin starts although it is switched off
start_plugin_services_always(srv) ==
    [srv EXCEPT !.started = TRUE,
                !.services = Append(@,
                    AMPouleService(
                        ProcessPool(SERVICE_NAME, PROCPOOL_MIN_NPROC, PROCPOOL_MAX_NPROC,
                                    RecycleAfter, PROCPOOL_TIMEOUT,
                                    "PythonProcPoolChild", ProcessStarter(srv)),
                        "PythonProcPoolChild", PROCPOOL_PORT, PROCPOOL_INTERFACE,
                        SERVICE_NAME))]

\* start_plugin_services(server)
start_plugin_services(srv) ==
    IF ~srv.enabled THEN [srv EXCEPT !.started = TRUE]
    ELSE [srv EXCEPT !.started = TRUE,
                     !.services = Append(@,
                         AMPouleService(
                             ProcessPool(SERVICE_NAME, PROCPOOL_MIN_NPROC,
                                         PROCPOOL_MAX_NPROC, RecycleAfter,
                                         PROCPOOL_TIMEOUT, "PythonProcPoolChild",
                                         ProcessStarter(srv)),
                             "PythonProcPoolChild", PROCPOOL_PORT, PROCPOOL_INTERFACE,
                             SERVICE_NAME))]

----------------------------------------------------------------------------
(* The commands as actions. A command runs to completion; the clock is read *)
(* as one value for the whole command.                                       *)

\* the session still shows the unconnected command set
Unconnected(s) == sessions[s].connected /\ ~sessions[s].logged_in

\* the record of a command: which, by whom, with what arguments, what it did,
\* whether it raised, and the caller's fail list as the command found it
Out(cmd, s, args, events, raised, fails) ==
    [cmd |-> cmd, sess |-> s, args |-> args, events |-> events, raised |-> raised,
     fails |-> fails]

\* the fail list of session s's address
FailsOf(st, s) == st[AddrKey(SessionAddress(s))]

\* write a world back to the variables
Commit(w, cmd, s, args, raised) ==
    /\ storage' = w.storage
    /\ accounts' = w.accounts
    /\ characters' = w.characters
    /\ sessions' = w.sessions
    /\ out' = Out(cmd, s, args, w.events, raised, FailsOf(storage, s))
    /\ UNCHANGED <<now, settings, bans>>
    /\ UNCHANGED travel_vars
    /\ UNCHANGED startup_vars

\* write a command's result back, while the account table has room
CommitResult(r, cmd, s, args) ==
    /\ Len(r.w.accounts) <= MaxAccounts
    /\ Commit(r.w, cmd, s, args, r.raised)

CmdUnconnectedConnect(s, args, env) ==
    /\ Unconnected(s)
    /\ CommitResult(ConnectResult(World, s, now, args, env), "connect", s, args)

CmdUnconnectedCreate(s, args, env) ==
    /\ Unconnected(s)
    /\ CommitResult(CreateResult(World, s, args, env), "create", s, args)

CmdUnconnectedQuit(s) ==
    /\ Unconnected(s)
    /\ Commit(Disconnect(World, s), "quit", s, "", FALSE)

CmdUnconnectedAbout(s) ==
    /\ Unconnected(s)
    /\ Commit(Msg(World, "about"), "about", s, "", FALSE)

\* has_screen: utils.random_string_from_module found a connection screen
CmdUnconnectedLook(s, has_screen) ==
    /\ Unconnected(s)
    /\ Commit(Msg(World, IF has_screen THEN "connection_screen" ELSE "no_screen"),
              "look", s, "", FALSE)

CmdUnconnectedHelp(s) ==
    /\ Unconnected(s)
    /\ Commit(Msg(World, "help"), "help", s, "", FALSE)

\* the header, the table of puppeted sessions and the account count
CmdWhoUs(s) ==
    /\ Unconnected(s)
    /\ Commit(Msg(Msg(Msg(World, "who_header"), "who_table"), "who_summary"),
              "who", s, "", FALSE)

\* codecs python can look up
KnownEncodings == {"utf-8", "latin-1", "ascii"}

SetEncoding(w, s, encoding) == [w EXCEPT !.sessions[s].ENCODING = encoding]

\* self.session.sessionhandler.session_portal_sync(self.session)
PortalSync(w, s) == Call(w, "session_portal_sync", s)

\* the encoding is stored before the codec is looked up
EncodingResult_unchecked(w, s, clear, args, old_encoding) ==
    IF clear
    THEN Msg(PortalSync(SetEncoding(w, s, "utf-8"), s),
             IF old_encoding # "" THEN "encoding_cleared" ELSE "encoding_none_set")
    ELSE IF args = "" THEN Msg(w, "encoding_list")
    ELSE IF args \notin KnownEncodings
    THEN Msg(SetEncoding(w, s, args), "encoding_invalid")
    ELSE Msg(PortalSync(SetEncoding(w, s, args), s), "encoding_changed")

\* the world after encoding; ENCODING "" stands for no ENCODING key
EncodingResult(w, s, clear, args, old_encoding) ==
    IF clear
    THEN Msg(PortalSync(SetEncoding(w, s, "utf-8"), s),
             IF old_encoding # "" THEN "encoding_cleared" ELSE "encoding_none_set")
    ELSE IF args = "" THEN Msg(w, "encoding_list")
    ELSE IF args \notin KnownEncodings THEN Msg(w, "encoding_invalid")
    ELSE Msg(PortalSync(SetEncoding(w, s, args), s), "encoding_changed")

CmdUnconnectedEncoding(s, clear, args) ==
    /\ Unconnected(s)
    /\ Commit(EncodingResult(World, s, clear, args, sessions[s].ENCODING),
              "encoding", s, args, FALSE)

ScreenreaderResult(w, s, new_setting) ==
    PortalSync(Msg([w EXCEPT !.sessions[s].SCREENREADER = new_setting],
                   IF new_setting THEN "screenreader_on" ELSE "screenreader_off"), s)

CmdUnconnectedScreenreader(s) ==
    /\ Unconnected(s)
    /\ Commit(ScreenreaderResult(World, s, ~sessions[s].SCREENREADER),
              "screenreader", s, "", FALSE)

\* d seconds pass between two commands
Tick(d) ==
    /\ now + d <= MaxTime
    /\ now' = now + d
    /\ out' = Out("tick", "", "", <<>>, FALSE, <<>>)
    /\ UNCHANGED <<storage, accounts, characters, sessions, settings, bans>>
    /\ UNCHANGED travel_vars
    /\ UNCHANGED startup_vars

----------------------------------------------------------------------------
(* Movement as actions. The reactor's time is counted per delayed call, in   *)
(* whole time units waited; the movement code never reads the clock.         *)

\* a delayed call stays in memory while the reactor is to make it or the
\* traveller holds it in ndb.currently_moving
Held(tr, ds, d) == ds[d].state = "pending" \/ d = tr.currently_moving

\* the delayed calls still in memory, in order
Collected(tr, ds) ==
    LET keep(i) == Held(tr, ds, i)
        ids == {d \in 1..Len(ds) : keep(d)}
        nth[n \in 1..Cardinality(ids)] ==
            CHOOSE d \in ids : Cardinality({x \in ids : x <= d}) = n
    IN  [n \in 1..Cardinality(ids) |-> ds[nth[n]]]

\* the traveller, its ndb.currently_moving following the call it names
Renamed(tr, ds) ==
    [tr EXCEPT !.currently_moving =
        IF @ = 0 THEN 0
        ELSE Cardinality({d \in 1..@ : Held(tr, ds, d)})]

\* write a movement result back; the return value closes the events
TravelCommit(r, cmd, args) ==
    /\ traveller' = Renamed(r.tr, r.ds)
    /\ deferreds' = Collected(r.tr, r.ds)
    /\ out' = Out(cmd, "", args, Append(r.events, Ev("return", r.ret)), r.raised, <<>>)
    /\ UNCHANGED exits
    /\ UNCHANGED prelogin_vars
    /\ UNCHANGED startup_vars

\* the exit's command, open to a traveller beside the exit or inside it, calls
\* self.obj.at_traverse(self.caller, self.obj.destination)
AtTraverse(e, allowed, success) ==
    /\ traveller.location \in {exits[e].location, e}
    /\ TravelCommit(at_traverse(exits, e, traveller, deferreds, exits[e].destination,
                                allowed, success),
                    "at_traverse", e)

\* the reactor makes delayed call d once its delay has passed
MoveCallback(d, success) ==
    /\ deferreds[d].state = "pending"
    /\ deferreds[d].waited = deferreds[d].delay
    /\ TravelCommit(move_callback(exits, traveller, deferreds, d, success),
                    "move_callback", deferreds[d].self)

\* one time unit passes while a delayed call is pending; a call that is due is
\* made before more time passes
TickTravel ==
    /\ \E d \in 1..Len(deferreds) : deferreds[d].state = "pending"
    /\ \A d \in 1..Len(deferreds) :
           deferreds[d].state = "pending" => deferreds[d].waited < deferreds[d].delay
    /\ deferreds' = [d \in 1..Len(deferreds) |->
                        IF deferreds[d].state = "pending"
                        THEN [deferreds[d] EXCEPT !.waited = @ + 1]
                        ELSE deferreds[d]]
    /\ out' = Out("tick", "", "", <<>>, FALSE, <<>>)
    /\ UNCHANGED <<exits, traveller>>
    /\ UNCHANGED prelogin_vars
    /\ UNCHANGED startup_vars

CmdStop ==
    /\ on_path(exits, traveller)
    /\ TravelCommit(CmdStopResult(traveller, deferreds), "stop", "")

CmdSpeed(args) == TravelCommit(CmdSpeedResult(traveller, deferreds, args), "speed", args)

CmdContinue(success) ==
    /\ on_path(exits, traveller)
    /\ TravelCommit(CmdContinueResult(exits, traveller, deferreds, success),
                    "continue", "")

\* back is given where the traveller is, nowhere included
CmdBack(allowed, success, moved) ==
    TravelCommit(CmdBackResult(exits, traveller, deferreds, allowed, success, moved),
                 "back", "")

\* the traveller is left without location (their place is deleted, or they are
\* sent to None), a state CmdBack.func provides for
ToNone ==
    /\ traveller.location # ""
    /\ traveller' = [traveller EXCEPT !.location = ""]
    /\ out' = Out("to_none", "", "", <<>>, FALSE, <<>>)
    /\ UNCHANGED <<exits, deferreds>>
    /\ UNCHANGED prelogin_vars
    /\ UNCHANGED startup_vars

----------------------------------------------------------------------------
(* Server start as actions *)

\* a step of server start, recorded as the last command
StartupFrame ==
    /\ UNCHANGED prelogin_vars
    /\ UNCHANGED travel_vars

\* the command set module is imported, once
LoadCmdsetModule ==
    /\ cmdset_module = "unloaded"
    /\ cmdset_module' = ImportCmdsetModule
    /\ out' = Out("import", "", "default_cmdsets", <<>>,
                  ImportCmdsetModule = "ImportError", <<>>)
    /\ UNCHANGED <<cmdsets, server>>
    /\ StartupFrame

\* the game makes bundle b, after the import was tried
AssembleCmdSet(b, fallback) ==
    /\ cmdset_module # "unloaded"
    /\ cmdsets[b].state = "none"
    /\ cmdsets' = [cmdsets EXCEPT ![b] = GetCmdSet(cmdset_module, b, @, fallback)]
    /\ out' = Out("at_cmdset_creation", "", b, <<>>, FALSE, <<>>)
    /\ UNCHANGED <<cmdset_module, server>>
    /\ StartupFrame

\* the server calls the plugin hook as it starts
StartPluginServices ==
    /\ ~server.started
    /\ server' = start_plugin_services(server)
    /\ out' = Out("start_plugin_services", "", "", <<>>, FALSE, <<>>)
    /\ UNCHANGED <<cmdset_module, cmdsets>>
    /\ StartupFrame

----------------------------------------------------------------------------
(* Initial states and inputs *)

\* the bundles before they are made, over the framework's default commands
NewCmdSets(optional) ==
    [b \in Bundles |->
        NewCmdSet(CASE b = "Character" -> DefaultCharacterCmds \cup optional
                    [] b = "Player" -> DefaultPlayerCmds
                    [] b = "Unloggedin" -> DefaultUnloggedinCmds
                    [] OTHER -> DefaultSessionCmds)]

\* before server start: nothing imported, no bundle made, no service started;
\* the plugin's flags as the module sets them
InitNotStarted ==
    /\ cmdset_module = "unloaded"
    /\ cmdsets = NewCmdSets({})
    /\ server = NewServer(TRUE, TRUE, "posix")

Hosts == {"10.0.0.1", "10.0.0.2"}

\* a connection that has just reached the connect screen
NewSession(s) ==
    [address |-> SessionAddress(s), connected |-> TRUE, logged_in |-> FALSE,
     account |-> 0, ENCODING |-> "utf-8", SCREENREADER |-> FALSE]

\* an account made earlier by create, with its character, which has logged in before
InitAccounts ==
    <<[username |-> "Anna", password |-> "c67jHL8p",
       permissions |-> PERMISSION_ACCOUNT_DEFAULT, typeclass |-> None,
       FIRST_LOGIN |-> FALSE, subscribed |-> TRUE,
       playable |-> <<1>>, last_puppet |-> 1]>>

InitCharacters ==
    <<[key |-> "Anna", typeclass |-> BASE_CHARACTER_TYPECLASS,
       permissions |-> PERMISSION_ACCOUNT_DEFAULT, home |-> DEFAULT_HOME,
       location |-> DEFAULT_HOME, locks |-> CharacterLocks(1, 1),
       desc_brief |-> "It looks like a new creature on the block."]>>

Settings(guest_enabled, guest_list, multisession_mode) ==
    [GUEST_ENABLED |-> guest_enabled, GUEST_LIST |-> guest_list,
     MULTISESSION_MODE |-> multisession_mode]

\* the ban lists tried: none, a banned name, a banned host
BanLists ==
    {{}, {Ban("anna", FALSE, {})}, {Ban("", TRUE, {"10.0.0.1"})}}

\* the environments tried: all well, no public channel and a home room set, or
\* a typeclass that describes its characters
Envs ==
    {Env(TRUE, "", 0), Env(FALSE, "#5", 48879),
     WithDescBrief(Env(TRUE, "", 0), "A seasoned traveller.")}

\* the environment of the whole-suite and throttle specifications
PlainEnvs == {Env(TRUE, "", 0)}

\* the movement subsystem at rest: the traveller stands in the first room
InitAtRest ==
    /\ exits = [e \in ExitNames |-> NewExit(e, "")]
    /\ traveller = NewTraveller
    /\ deferreds = <<>>
    /\ InitNotStarted

InitWith(ss, cfgs, banlists) ==
    /\ InitAtRest
    /\ now = 0
    /\ storage = [h \in Hosts |-> <<>>]
    /\ accounts = InitAccounts
    /\ characters = InitCharacters
    /\ sessions = [s \in ss |-> NewSession(s)]
    /\ settings \in cfgs
    /\ bans \in banlists
    /\ out = Out("none", "", "", <<>>, FALSE, <<>>)

----------------------------------------------------------------------------
(* The pre-login suite: every command, from two connections of one host *)

Init ==
    InitWith({"s1", "s2"}, {Settings(g, GuestNames, 0) : g \in BOOLEAN}, BanLists)

Next ==
    \/ \E s \in DOMAIN sessions, a \in ConnectArgs, e \in PlainEnvs :
           CmdUnconnectedConnect(s, a, e)
    \/ \E s \in DOMAIN sessions, a \in SuiteCreateArgs, e \in PlainEnvs :
           CmdUnconnectedCreate(s, a, e)
    \/ \E s \in DOMAIN sessions : CmdUnconnectedQuit(s)
    \/ \E s \in DOMAIN sessions : CmdUnconnectedAbout(s)
    \/ \E s \in DOMAIN sessions, b \in BOOLEAN : CmdUnconnectedLook(s, b)
    \/ \E s \in DOMAIN sessions : CmdUnconnectedHelp(s)
    \/ \E s \in DOMAIN sessions : CmdWhoUs(s)
    \/ \E s \in DOMAIN sessions, c \in BOOLEAN, a \in SuiteEncodingArgs :
           CmdUnconnectedEncoding(s, c, a)
    \/ \E s \in DOMAIN sessions : CmdUnconnectedScreenreader(s)

Spec == Init /\ [][Next]_vars

----------------------------------------------------------------------------
(* The throttle over time: connects from two hosts while the clock advances *)

\* the clock advances by just under, or exactly, the throttle timeout
TickSteps == {ThrottleTimeout - 1, ThrottleTimeout}

InitThrottle ==
    InitWith({"s2", "s3"}, {Settings(FALSE, GuestNames, 0)}, {{}})

NextThrottle ==
    \/ \E s \in DOMAIN sessions, a \in ThrottleArgs, e \in PlainEnvs :
           CmdUnconnectedConnect(s, a, e)
    \/ \E d \in TickSteps : Tick(d)

SpecThrottle == InitThrottle /\ [][NextThrottle]_vars

----------------------------------------------------------------------------
(* _throttle called directly, in check mode and in record mode *)

\* the fail lists of this specification hold at most this many timestamps
MaxFails == 6

\* the calls made, by name, with their (maxlim, timeout): the login limits,
\* a lower limit, and none (record mode)
ThrottleCalls ==
    [c \in {"maxlim=5, timeout=300", "maxlim=2, timeout=300", "record"} |->
        CASE c = "maxlim=5, timeout=300" -> <<ThrottleMaxlim, ThrottleTimeout>>
          [] c = "maxlim=2, timeout=300" -> <<2, ThrottleTimeout>>
          [] OTHER -> <<NoLimit, NoLimit>>]

\* what one call returned, and the storage it left
ThrottleReturn(r) == <<Ev("return", IF r.ret THEN "True" ELSE "False")>>

ThrottleCommit(r, s, call) ==
    /\ Len(r.storage[AddrKey(sessions[s].address)]) <= MaxFails
    /\ storage' = r.storage
    /\ out' = Out("_throttle", s, call, ThrottleReturn(r), FALSE, FailsOf(storage, s))
    /\ UNCHANGED <<now, accounts, characters, sessions, settings, bans>>
    /\ UNCHANGED travel_vars
    /\ UNCHANGED startup_vars

\* _throttle(session, maxlim, timeout), or _throttle(session) for "record"
ThrottleCall(s, call) ==
    /\ Unconnected(s)
    /\ ThrottleCommit(_throttle(storage, sessions[s].address, now,
                                ThrottleCalls[call][1], ThrottleCalls[call][2]),
                      s, call)

NextThrottleCalls ==
    \/ \E s \in DOMAIN sessions, c \in DOMAIN ThrottleCalls : ThrottleCall(s, c)
    \/ Tick(ThrottleTimeout)

SpecThrottleCalls == InitThrottle /\ [][NextThrottleCalls]_vars

----------------------------------------------------------------------------
(* Account creation: create commands only, from two connections *)

InitCreate ==
    InitWith({"s1", "s2"}, {Settings(TRUE, GuestNames, m) : m \in {0, 2}}, BanLists)

NextCreate ==
    \E s \in DOMAIN sessions, a \in CreateArgs, e \in Envs : CmdUnconnectedCreate(s, a, e)

SpecCreate == InitCreate /\ [][NextCreate]_vars

----------------------------------------------------------------------------
(* Account creation on a game that has no account yet *)

InitFresh ==
    /\ InitAtRest
    /\ now = 0
    /\ storage = [h \in Hosts |-> <<>>]
    /\ accounts = <<>>
    /\ characters = <<>>
    /\ sessions = [s \in {"s1", "s3"} |-> NewSession(s)]
    /\ settings \in {Settings(TRUE, GuestNames, m) : m \in {0, 2}}
    /\ bans = {}
    /\ out = Out("none", "", "", <<>>, FALSE, <<>>)

NextFresh ==
    \E s \in DOMAIN sessions, a \in FreshCreateArgs, e \in Envs :
        CmdUnconnectedCreate(s, a, e)

SpecFresh == InitFresh /\ [][NextFresh]_vars

----------------------------------------------------------------------------
(* _create_character called directly, for any account, among creates *)

\* the character table of this specification holds at most this many characters
MaxCharacters == 3

\* the (typeclass, home, permissions) of the two callers of _create_character
CharacterCalls ==
    {<<BASE_CHARACTER_TYPECLASS, GUEST_HOME, PERMISSION_GUEST_DEFAULT>>,
     <<BASE_CHARACTER_TYPECLASS, DEFAULT_HOME, PERMISSION_ACCOUNT_DEFAULT>>}

\* _create_character(session, new_account, typeclass, home, permissions)
CreateCharacterCall(s, new_account, call, env) ==
    /\ Unconnected(s)
    /\ Len(characters) < MaxCharacters
    /\ Commit(_create_character(World, new_account, call[1], call[2], call[3], env),
              "_create_character", s, accounts[new_account].username, FALSE)

InitCharacter ==
    InitWith({"s1", "s2"}, {Settings(TRUE, GuestNames, 2)}, {{}})

NextCharacter ==
    \/ \E s \in DOMAIN sessions, a \in SuiteCreateArgs, e \in PlainEnvs :
           CmdUnconnectedCreate(s, a, e)
    \/ \E s \in DOMAIN sessions, a \in 1..Len(accounts), c \in CharacterCalls, e \in Envs :
           CreateCharacterCall(s, a, c, e)

SpecCharacter == InitCharacter /\ [][NextCharacter]_vars

----------------------------------------------------------------------------
(* Movement: one traveller among two rooms, a path each way and a plain exit *)

\* db.err_traverse of a path that has one
ErrTraverse == "The trail is washed out."

InitTravel ==
    /\ now = 0
    /\ storage = [h \in Hosts |-> <<>>]
    /\ accounts = InitAccounts
    /\ characters = InitCharacters
    /\ sessions = [s \in {"s1"} |-> NewSession(s)]
    /\ settings = Settings(FALSE, GuestNames, 0)
    /\ bans = {}
    /\ out = Out("none", "", "", <<>>, FALSE, <<>>)
    /\ exits \in {[e \in ExitNames |-> NewExit(e, IF e \in E THEN ErrTraverse ELSE "")] :
                     E \in SUBSET {"trail"}}
    /\ traveller = NewTraveller
    /\ deferreds = <<>>
    /\ InitNotStarted

\* what the hooks and moves within one back return, exit by exit
ExitAnswers == [ExitNames -> BOOLEAN]

\* the exits whose command a back given now may run
Asked == {e \in ExitNames : /\ exits[e].location = traveller.location
                            /\ exits[e].destination = traveller.last_room}

\* the answers that differ for those exits only
AskedAnswers == {f \in ExitAnswers : \A e \in ExitNames \ Asked : f[e]}

NextTravel ==
    \/ \E e \in ExitNames, allowed \in BOOLEAN, success \in BOOLEAN :
           AtTraverse(e, allowed, success)
    \/ \E d \in 1..Len(deferreds), success \in BOOLEAN : MoveCallback(d, success)
    \/ TickTravel
    \/ CmdStop
    \/ \E a \in SpeedArgs : CmdSpeed(a)
    \/ \E success \in BOOLEAN : CmdContinue(success)
    \/ \E allowed \in AskedAnswers, success \in AskedAnswers, moved \in BOOLEAN :
           CmdBack(allowed, success, moved)

SpecTravel == InitTravel /\ [][NextTravel]_vars

\* the reactor's timer goes on: time passes while a delayed call waits, and a
\* call that is due is made
TimerFairness ==
    /\ WF_vars(TickTravel)
    /\ WF_vars(\E d \in 1..Len(deferreds), success \in BOOLEAN :
                   MoveCallback(d, success))

SpecTravelFair == InitTravel /\ [][NextTravel]_vars /\ TimerFairness

\* the same world, where the traveller may also be left nowhere
NextNowhere == NextTravel \/ ToNone

SpecNowhere == InitTravel /\ [][NextNowhere]_vars

\* two sessions at the connect screen set their protocol flags
InitEncoding == InitWith({"s1", "s2"}, {Settings(FALSE, GuestNames, 0)}, {{}})

NextEncoding ==
    \/ \E s \in DOMAIN sessions, c \in BOOLEAN, a \in EncodingArgs :
           CmdUnconnectedEncoding(s, c, a)
    \/ \E s \in DOMAIN sessions : CmdUnconnectedScreenreader(s)

SpecEncoding == InitEncoding /\ [][NextEncoding]_vars

\* server start, over the framework's versions, the plugin's flags and the platform
InitStartup ==
    /\ now = 0
    /\ storage = [h \in Hosts |-> <<>>]
    /\ accounts = InitAccounts
    /\ characters = InitCharacters
    /\ sessions = [s \in {"s1"} |-> NewSession(s)]
    /\ settings = Settings(FALSE, GuestNames, 0)
    /\ bans = {}
    /\ out = Out("none", "", "", <<>>, FALSE, <<>>)
    /\ exits = [e \in ExitNames |-> NewExit(e, "")]
    /\ traveller = NewTraveller
    /\ deferreds = <<>>
    /\ cmdset_module = "unloaded"
    /\ cmdsets \in {NewCmdSets(optional) : optional \in SUBSET OptionalCharacterCmds}
    /\ server \in {NewServer(enabled, debug, os_name) :
                       enabled \in BOOLEAN, debug \in BOOLEAN,
                       os_name \in {"posix", "nt"}}

NextStartup ==
    \/ LoadCmdsetModule
    \/ \E b \in Bundles, fallback \in BOOLEAN : AssembleCmdSet(b, fallback)
    \/ StartPluginServices

SpecStartup == InitStartup /\ [][NextStartup]_vars

----------------------------------------------------------------------------
(* Properties *)

Last(L) == L[Len(L)]

\* the events of a command that sent message m and did nothing else
MsgOnly(m) == <<Ev("msg", m)>>

\* the last command sent message m
Sent(m) == Ev("msg", m) \in Range(out.events)

\* the last command was cmd, issued by session s
Did(cmd, s) == out.cmd = cmd /\ out.sess = s

\* C1: once an address has 5 recorded failures, a connect's throttle check made
\* less than 300 seconds after the most recent one returns throttled (the
\* command only sends the rate-limit message and the list stays); the check made
\* 300 seconds or more after the most recent one returns not-throttled and
\* empties the list, so that after the command the list holds nothing but a
\* failure this command itself recorded.
C1_ThrottleThenRelease ==
    \A s \in DOMAIN sessions :
        (Did("connect", s) /\ Len(out.fails) >= ThrottleMaxlim) =>
            IF now - Last(out.fails) < ThrottleTimeout
            THEN out.events = MsgOnly("throttled") /\ FailsOf(storage, s) = out.fails
            ELSE ~Sent("throttled") /\ FailsOf(storage, s) \in {<<>>, <<now>>}

\* five failures within a 300-second span, and a check 300 seconds or more after
\* the last of them that released the address
C1_Witness ==
    \E s \in DOMAIN sessions :
        /\ Did("connect", s)
        /\ Len(out.fails) = ThrottleMaxlim
        /\ Last(out.fails) - out.fails[1] <= ThrottleTimeout
        /\ Last(out.fails) > out.fails[1]
        /\ now - Last(out.fails) >= ThrottleTimeout
        /\ ~Sent("throttled")
        /\ FailsOf(storage, s) = <<>>

\* C2 as stated: a check returns throttled only if at least 5 failures of the
\* address were recorded within the 300 seconds preceding the check.
C2_SlidingWindow ==
    \A s \in DOMAIN sessions :
        (Did("connect", s) /\ Sent("throttled")) =>
            Cardinality({i \in 1..Len(out.fails) :
                            now - out.fails[i] <= ThrottleTimeout}) >= ThrottleMaxlim

\* C2 amended: a check returns throttled only if the address's fail list holds
\* at least 5 failures and the most recent of them was recorded less than 300
\* seconds before the check; the older ones count however old they are.
C2_Lockout ==
    \A s \in DOMAIN sessions :
        (Did("connect", s) /\ Sent("throttled")) =>
            /\ Len(out.fails) >= ThrottleMaxlim
            /\ now - Last(out.fails) < ThrottleTimeout

\* a throttled connect whose address has a failure older than 300 seconds
C2_Witness ==
    \E s \in DOMAIN sessions :
        /\ Did("connect", s)
        /\ Sent("throttled")
        /\ now - out.fails[1] > ThrottleTimeout

\* C3: a check-mode call of _throttle never appends and changes the caller's
\* list only by emptying it, and only when the list has at least maxlim entries
\* and timeout seconds have passed since the last; a record-mode call appends
\* exactly one timestamp; whichever the mode, the lists of all other addresses
\* stay as they were.
C3_Step ==
    \A s \in DOMAIN sessions :
        (out'.cmd = "_throttle" /\ out'.sess = s) =>
            LET key == AddrKey(sessions[s].address)
                maxlim == ThrottleCalls[out'.args][1]
                timeout == ThrottleCalls[out'.args][2]
            IN  /\ DOMAIN storage' = DOMAIN storage
                /\ \A k \in DOMAIN storage \ {key} : storage'[k] = storage[k]
                /\ IF out'.args = "record"
                   THEN storage'[key] = Append(storage[key], now)
                   ELSE \/ storage'[key] = storage[key]
                        \/ /\ storage'[key] = <<>>
                           /\ Len(storage[key]) >= maxlim
                           /\ now - Last(storage[key]) >= timeout

C3_ThrottleFrame == [][C3_Step]_vars

\* a check that emptied the caller's list while another address keeps its own
C3_Witness ==
    \E s \in DOMAIN sessions :
        /\ Did("_throttle", s)
        /\ out.args # "record"
        /\ out.fails # <<>>
        /\ FailsOf(storage, s) = <<>>
        /\ \E k \in DOMAIN storage : storage[k] # <<>>

\* the tokens connect makes of its arguments
ConnectParts(args) ==
    IF Len(QuotedPartsOf[args]) = 1
    THEN SplitNone1Of[QuotedPartsOf[args][1]]
    ELSE QuotedPartsOf[args]

\* connect takes its guest branch on these arguments
IsGuestLogin(args) ==
    /\ Len(QuotedPartsOf[args]) = 1
    /\ Len(ConnectParts(args)) = 1
    /\ LowerOf[ConnectParts(args)[1]] = "guest"

\* the tokens create makes of its arguments
CreateParts(args) == ConnectParts(StripOf[args])

\* a check at time t of fail list L, with the login limits, returns throttled
ThrottledAt(L, t) == Len(L) >= ThrottleMaxlim /\ t - Last(L) < ThrottleTimeout

\* this step is command cmd issued by session s
Does(cmd, s) == out'.cmd = cmd /\ out'.sess = s

\* C4: a session becomes authenticated only in a connect step of its own in
\* which an account was obtained: either name and password authenticated, the
\* address was not throttled and the ban check passed, or guest login made a new
\* account. Every other command, a successful create included, leaves every
\* session as unauthenticated as it was.
C4_Step ==
    \A s \in DOMAIN sessions :
        (~sessions[s].logged_in /\ sessions'[s].logged_in) =>
            /\ Does("connect", s)
            /\ ~ThrottledAt(FailsOf(storage, s), now)
            /\ sessions'[s].account \in 1..Len(accounts')
            /\ IF IsGuestLogin(out'.args)
               THEN /\ settings.GUEST_ENABLED
                    /\ Len(accounts') = Len(accounts) + 1
                    /\ sessions'[s].account = Len(accounts')
               ELSE /\ Len(ConnectParts(out'.args)) = 2
                    /\ sessions'[s].account =
                           authenticate(accounts, ConnectParts(out'.args)[1],
                                        ConnectParts(out'.args)[2])
                    /\ NameOrAddressBanned(bans,
                           LowerOf[accounts[sessions'[s].account].username],
                           sessions[s].address) = "no"

C4_OnlyConnectAuthenticates == [][C4_Step]_vars

\* a connect logged its session in while an account made by create exists and
\* the other session is still unauthenticated
C4_Witness ==
    \E s \in DOMAIN sessions :
        /\ Did("connect", s)
        /\ sessions[s].logged_in
        /\ sessions[s].account # 0
        /\ \E i \in 1..Len(accounts) : accounts[i].username = "Bob"
        /\ \E s2 \in DOMAIN sessions \ {s} : ~sessions[s2].logged_in

\* C5: a connect issued while its address is throttled sends the rate-limit
\* message and nothing else: no authentication, no login, no guest account, and
\* the fail lists, the accounts, the characters and the sessions stay as they were.
C5_Step ==
    \A s \in DOMAIN sessions :
        (Does("connect", s) /\ ThrottledAt(FailsOf(storage, s), now)) =>
            /\ out'.events = MsgOnly("throttled")
            /\ ~out'.raised
            /\ UNCHANGED <<storage, accounts, characters, sessions>>

C5_ThrottledConnectStops == [][C5_Step]_vars

\* a throttled connect that gave the right name and password
C5_Witness ==
    \E s \in DOMAIN sessions :
        /\ Did("connect", s)
        /\ out.args = " Anna c67jHL8p"
        /\ ThrottledAt(out.fails, now)
        /\ out.events = MsgOnly("throttled")
        /\ ~sessions[s].logged_in

\* what the failed-login hook adds to the events of a failed connect for name
HookEvents(name) ==
    IF get_account_from_name(accounts, name) # 0
    THEN <<Ev("at_failed_login",
              accounts[get_account_from_name(accounts, name)].username)>>
    ELSE <<>>

\* C6: a connect that is not throttled, has two tokens and does not
\* authenticate sends the incorrect-login message, appends exactly one timestamp
\* (the current time) to the fail list the throttle check left for its address,
\* calls the failed-login hook exactly when an account of that name exists, and
\* leaves the accounts, the other fail lists and every session as they were.
C6_Step ==
    \A s \in DOMAIN sessions :
        (/\ Does("connect", s)
         /\ ~ThrottledAt(FailsOf(storage, s), now)
         /\ Len(ConnectParts(out'.args)) = 2
         /\ authenticate(accounts, ConnectParts(out'.args)[1],
                         ConnectParts(out'.args)[2]) = 0) =>
            /\ out'.events = <<Ev("authenticate", ConnectParts(out'.args)[1]),
                               Ev("msg", "incorrect")>>
                             \o HookEvents(ConnectParts(out'.args)[1])
            /\ FailsOf(storage', s) =
                   Append(IF Len(FailsOf(storage, s)) >= ThrottleMaxlim
                          THEN <<>> ELSE FailsOf(storage, s), now)
            /\ \A k \in DOMAIN storage \ {AddrKey(sessions[s].address)} :
                   storage'[k] = storage[k]
            /\ UNCHANGED <<accounts, characters, sessions>>

C6_FailedConnect == [][C6_Step]_vars

\* a failed connect for an existing account, with failures already on the list
C6_Witness ==
    \E s \in DOMAIN sessions :
        /\ Did("connect", s)
        /\ out.args = " anna wrong"
        /\ Ev("at_failed_login", "Anna") \in Range(out.events)
        /\ out.fails # <<>>
        /\ FailsOf(storage, s) = Append(out.fails, now)
        /\ sessions[s].connected /\ ~sessions[s].logged_in

\* some ban entry names this account, or has a pattern matching this address
Banned(username, address) ==
    \/ \E b \in bans : b.name = LowerOf[username]
    \/ /\ ~address.tuple
       /\ \E b \in bans : b.haspat /\ address.str \in b.hosts

\* C7: a connect whose name and password authenticate an account that a ban
\* entry names, or from an address a ban entry's pattern matches, sends the ban
\* notice, disconnects the session and logs nobody in; no session is ever
\* logged in to an account a ban entry names, or from a host a ban entry's
\* pattern covers.
C7_Step ==
    /\ \A s \in DOMAIN sessions :
           (/\ Does("connect", s)
            /\ ~ThrottledAt(FailsOf(storage, s), now)
            /\ Len(ConnectParts(out'.args)) = 2
            /\ authenticate(accounts, ConnectParts(out'.args)[1],
                            ConnectParts(out'.args)[2]) # 0
            /\ Banned(accounts[authenticate(accounts, ConnectParts(out'.args)[1],
                                            ConnectParts(out'.args)[2])].username,
                      sessions[s].address)) =>
               /\ out'.events = <<Ev("authenticate", ConnectParts(out'.args)[1]),
                                  Ev("msg", "banned"), Ev("msg", "goodbye"),
                                  Ev("disconnect", s)>>
               /\ ~sessions'[s].connected
               /\ ~sessions'[s].logged_in
               /\ sessions'[s].account = 0
               /\ UNCHANGED <<storage, accounts, characters>>
    /\ \A s \in DOMAIN sessions :
           sessions'[s].logged_in =>
               /\ ~(\E b \in bans :
                        b.name = LowerOf[accounts'[sessions'[s].account].username])
               /\ ~(\E b \in bans :
                        b.haspat /\ AddrKey(sessions'[s].address) \in b.hosts)

C8_Step ==
    \A s \in DOMAIN sessions :
        (Does("connect", s) /\ IsGuestLogin(out'.args) /\ ~settings.GUEST_ENABLED) =>
            /\ \A e \in PlainEnvs :
                   create_guest_account(World, s, e) = GuestRet(FALSE, World, 0, FALSE)
            /\ ~sessions'[s].logged_in
            /\ UNCHANGED <<accounts, characters, sessions>>

C8_GuestsDisabled == [][C8_Step]_vars

\* connect guest answered by the usage message, guests being disabled
C8_Witness ==
    \E s \in DOMAIN sessions :
        /\ Did("connect", s)
        /\ IsGuestLogin(out.args)
        /\ ~settings.GUEST_ENABLED
        /\ out.events = MsgOnly("usage_connect")
        /\ ~sessions[s].logged_in

\* the positions of the guest names no account holds, case ignored
FreeGuestNames == {i \in 1..Len(settings.GUEST_LIST) :
                      IExact(accounts, settings.GUEST_LIST[i]) = {}}

\* C9 as stated: with guests enabled and the address not banned, guest login
\* makes the guest account under the first name of the guest list that no
\* account holds; when every name is held it makes no account and says that all
\* guest accounts are in use.
C9_Step ==
    \A s \in DOMAIN sessions :
        (/\ Does("connect", s)
         /\ IsGuestLogin(out'.args)
         /\ settings.GUEST_ENABLED
         /\ ~ThrottledAt(FailsOf(storage, s), now)
         /\ AddressBanned(bans, sessions[s].address) = "no") =>
            IF FreeGuestNames = {}
            THEN accounts' = accounts /\ out'.events = MsgOnly("guests_in_use")
            ELSE /\ Len(accounts') = Len(accounts) + 1
                 /\ \E i \in FreeGuestNames :
                        /\ \A j \in FreeGuestNames : i <= j
                        /\ accounts'[Len(accounts')].username = settings.GUEST_LIST[i]

C9_FirstFreeGuestName == [][C9_Step]_vars

\* no two accounts have names equal ignoring case
UniqueNames ==
    \A i, j \in 1..Len(accounts) :
        i # j => LowerOf[accounts[i].username] # LowerOf[accounts[j].username]

\* this step is a create naming, once collapsed, an account that exists
CreateOfExistingName ==
    /\ out'.cmd = "create"
    /\ Len(CreateParts(out'.args)) = 2
    /\ IExact(accounts, CollapseOf[CreateParts(out'.args)[1]]) # {}

\* the name as typed passes create's character and length test
TypedNameValid(name) ==
    MatchesAllowedOf[name] /\ 0 < Len(name) /\ Len(name) <= MaxNameLen

\* C10 as stated: no two accounts ever have names equal ignoring case, and a
\* create whose collapsed name equals an existing name ignoring case is rejected
\* with the already-exists message and makes no account.
C10_Stated_Step ==
    /\ UniqueNames'
    /\ CreateOfExistingName =>
           out'.events = MsgOnly("exists") /\ accounts' = accounts

C10_ExistingNameRejected == [][C10_Stated_Step]_vars

\* C10 amended: no two accounts ever have names equal ignoring case, and a
\* create whose collapsed name equals an existing name ignoring case makes no
\* account; it is rejected with the already-exists message when the name as
\* typed passes the character and 1-to-30 length test, and with the
\* name-constraint message when it does not.
C10_Step ==
    /\ UniqueNames'
    /\ CreateOfExistingName =>
           /\ accounts' = accounts
           /\ out'.events = IF TypedNameValid(CreateParts(out'.args)[1])
                            THEN MsgOnly("exists") ELSE MsgOnly("bad_name")

C10_UniqueNames == [][C10_Step]_vars

\* bob refused because Bob exists
C10_Witness ==
    \E s \in DOMAIN sessions :
        /\ Did("create", s)
        /\ out.args = " bob pw12"
        /\ out.events = MsgOnly("exists")
        /\ \E i \in 1..Len(accounts) : accounts[i].username = "Bob"
        /\ UniqueNames

\* this step is a create of args that follows at once a create of prev that
\* made an account
CreateAfterCreate(prev, args) ==
    /\ out.cmd = "create" /\ out.args = prev
    /\ Sent("welcome_quoted") \/ Sent("welcome_plain")
    /\ out'.cmd = "create" /\ out'.args = args

\* C11 as stated: after a successful create "Anna the Barbarian" "c67jHL8p",
\* the create Anna c67jHL8p that follows at once is rejected with the
\* already-exists message and makes no account.
C11_Stated_Step ==
    CreateAfterCreate(" \"Anna the Barbarian\" \"c67jHL8p\"", " Anna c67jHL8p") =>
        out'.events = MsgOnly("exists") /\ accounts' = accounts

C11_ShorterNameRejected == [][C11_Stated_Step]_vars

\* C11 amended: names are compared whole, ignoring case. After a successful
\* create "Anna the Barbarian" "c67jHL8p", the create Anna c67jHL8p that follows
\* at once makes a second account, Anna, unless an account Anna existed already;
\* the create "anna the  barbarian" "c67jHL8p" that follows at once is rejected
\* with the already-exists message and makes no account.
C11_Step ==
    /\ CreateAfterCreate(" \"Anna the Barbarian\" \"c67jHL8p\"", " Anna c67jHL8p") =>
           IF \A i \in 1..Len(accounts) : LowerOf[accounts[i].username] # "anna"
           THEN /\ Len(accounts') = Len(accounts) + 1
                /\ accounts'[Len(accounts')].username = "Anna"
                /\ Ev("msg", "welcome_plain") \in Range(out'.events)
           ELSE out'.events = MsgOnly("exists") /\ accounts' = accounts
    /\ CreateAfterCreate(" \"Anna the Barbarian\" \"c67jHL8p\"",
                         " \"anna the  barbarian\" \"c67jHL8p\"") =>
           out'.events = MsgOnly("exists") /\ accounts' = accounts

C11_WholeNameCompared == [][C11_Step]_vars

\* Anna made as the second account, Anna the Barbarian being the first
C11_Witness ==
    /\ out.cmd = "create"
    /\ out.args = " Anna c67jHL8p"
    /\ Sent("welcome_plain")
    /\ Len(accounts) = 2
    /\ accounts[1].username = "Anna the Barbarian"
    /\ accounts[2].username = "Anna"

\* this step is a create whose name is valid, unused and not reserved
CreateOfGoodName ==
    /\ out'.cmd = "create"
    /\ Len(CreateParts(out'.args)) = 2
    /\ TypedNameValid(CreateParts(out'.args)[1])
    /\ IExact(accounts, CollapseOf[CreateParts(out'.args)[1]]) = {}
    /\ ~ReservedName(settings.GUEST_LIST, CollapseOf[CreateParts(out'.args)[1]])

\* C12: of the creates with a valid, unused, non-reserved name, one whose
\* password has 3 characters or fewer is rejected with the password message and
\* makes no account, and one whose password has more than 3 characters, all of
\* them allowed, is not given the password message.
C12_Step ==
    CreateOfGoodName =>
        IF Len(CreateParts(out'.args)[2]) <= MinPasswordLen
        THEN out'.events = MsgOnly("bad_password") /\ accounts' = accounts
        ELSE MatchesAllowedOf[CreateParts(out'.args)[2]] =>
                 Ev("msg", "bad_password") \notin Range(out'.events)

C12_PasswordLength == [][C12_Step]_vars

\* create Bob abc: a password of exactly 3 characters, refused
C12_Witness ==
    /\ out.cmd = "create"
    /\ out.args = " Bob abc"
    /\ out.events = MsgOnly("bad_password")
    /\ \A i \in 1..Len(accounts) : accounts[i].username # "Bob"

\* the reasons for which create turns a request away, read off the request
CreateRejected(s, args) ==
    \/ Len(CreateParts(args)) # 2
    \/ /\ Len(CreateParts(args)) = 2
       /\ \/ ~TypedNameValid(CreateParts(args)[1])
          \/ IExact(accounts, CollapseOf[CreateParts(args)[1]]) # {}
          \/ ReservedName(settings.GUEST_LIST, CollapseOf[CreateParts(args)[1]])
          \/ ~MatchesAllowedOf[CreateParts(args)[2]]
          \/ Len(CreateParts(args)[2]) <= MinPasswordLen
          \/ Banned(CollapseOf[CreateParts(args)[1]], sessions[s].address)

\* C13: a create that is rejected leaves the accounts, the characters and the
\* fail lists as they were; it only sends messages, and the sessions change in
\* nothing but the disconnection of the caller that goes with the ban notice.
C13_Step ==
    \A s \in DOMAIN sessions :
        (Does("create", s) /\ CreateRejected(s, out'.args)) =>
            /\ UNCHANGED <<accounts, characters, storage>>
            /\ ~out'.raised
            /\ IF Ev("msg", "banned") \in Range(out'.events)
               THEN /\ out'.events = <<Ev("msg", "banned"), Ev("msg", "goodbye"),
                                       Ev("disconnect", s)>>
                    /\ sessions' = [sessions EXCEPT ![s].connected = FALSE]
               ELSE /\ Len(out'.events) = 1
                    /\ out'.events[1].k = "msg"
                    /\ sessions' = sessions

C13_RejectedCreateFrame == [][C13_Step]_vars

\* a banned caller turned away by create, accounts already having been made
C13_Witness ==
    \E s \in DOMAIN sessions :
        /\ Did("create", s)
        /\ Sent("banned")
        /\ ~sessions[s].connected
        /\ Len(accounts) = Len(characters)

\* C14 as stated: the 1-to-30 length test is made on the collapsed name, so a
\* name of allowed characters that is 30 characters or fewer once collapsed
\* passes the name test however long it was typed.
C14_Stated_Step ==
    (/\ out'.cmd = "create"
     /\ Len(CreateParts(out'.args)) = 2
     /\ MatchesAllowedOf[CreateParts(out'.args)[1]]
     /\ 0 < Len(CollapseOf[CreateParts(out'.args)[1]])
     /\ Len(CollapseOf[CreateParts(out'.args)[1]]) <= MaxNameLen) =>
        Ev("msg", "bad_name") \notin Range(out'.events)

C14_LengthAfterCollapse == [][C14_Stated_Step]_vars

\* C14 amended: the 1-to-30 length test is made on the name as typed, before
\* its whitespace is collapsed: a name longer than 30 characters as typed is
\* rejected with the name-constraint message and makes no account even when it
\* is 30 characters or fewer once collapsed, and a name of allowed characters
\* that is 1 to 30 characters as typed passes the name test.
C14_Step ==
    (out'.cmd = "create" /\ Len(CreateParts(out'.args)) = 2) =>
        IF Len(CreateParts(out'.args)[1]) > MaxNameLen
        THEN out'.events = MsgOnly("bad_name") /\ accounts' = accounts
        ELSE MatchesAllowedOf[CreateParts(out'.args)[1]] =>
                 Ev("msg", "bad_name") \notin Range(out'.events)

C14_LengthAsTyped == [][C14_Step]_vars

\* a name of 32 characters as typed and 5 once collapsed, turned away while no
\* account has the collapsed name
C14_Witness ==
    /\ out.cmd = "create"
    /\ out.args = LongNameLine
    /\ Len(CreateParts(LongNameLine)[1]) > MaxNameLen
    /\ Len(CollapseOf[CreateParts(LongNameLine)[1]]) <= MaxNameLen
    /\ out.events = MsgOnly("bad_name")
    /\ IExact(accounts, CollapseOf[CreateParts(LongNameLine)[1]]) = {}

\* the account a step makes a character for: the one _create_character was
\* called with, or the one the command has just made
OwnerOfNewCharacter ==
    IF out'.cmd = "_create_character"
    THEN get_account_from_name(accounts, out'.args)
    ELSE Len(accounts')

\* the playable list of account pid before the step, empty for a new account
PlayableBefore(pid) == IF pid <= Len(accounts) THEN accounts[pid].playable ELSE <<>>

\* C15: a step that makes a character gives it exactly three lock rules, for
\* puppet, edit and control, each naming the new character's id and the id of
\* the account it was made for, appends it to that account's playable list,
\* makes it the account's last puppet, and leaves it with a brief description:
\* the typeclass's own when it supplies one, the default one when it does not.
C15_Step ==
    Len(characters') = Len(characters) + 1 =>
        LET cid == Len(characters')
            pid == OwnerOfNewCharacter
            locks == characters'[cid].locks
        IN  /\ pid \in 1..Len(accounts')
            /\ Cardinality(locks) = 3
            /\ {l.access : l \in locks} = {"puppet", "edit", "control"}
            /\ \A l \in locks : l.cid = cid /\ l.pid = pid
            /\ accounts'[pid].playable = Append(PlayableBefore(pid), cid)
            /\ accounts'[pid].last_puppet = cid
            /\ characters'[cid].desc_brief # ""
            /\ \A i \in 1..Len(characters) : characters'[i] = characters[i]
            /\ \A i \in 1..Len(accounts) : i # pid => accounts'[i] = accounts[i]

C15_CharacterSetUp == [][C15_Step]_vars

\* a character made for an account whose id differs from the character's,
\* with the default brief description
C15_Witness ==
    /\ out.cmd = "_create_character"
    /\ out.args = "Bob"
    /\ Len(characters) = 3
    /\ accounts[2].username = "Bob"
    /\ accounts[2].last_puppet = 3
    /\ accounts[2].playable = <<2, 3>>
    /\ \A l \in characters[3].locks : l.cid = 3 /\ l.pid = 2
    /\ characters[3].desc_brief = "It looks like a new creature on the block."


----------------------------------------------------------------------------
(* Timed movement through path exits *)

\* the path exits
PathExits == {e \in ExitNames : exits[e].is_path}

\* the delayed calls the reactor is still to make
Pending(ds) == {d \in 1..Len(ds) : ds[d].state = "pending"}

\* the delay the speed table gives a stored speed, walk's when none is stored
TableDelay(move_speed) ==
    CASE move_speed = "stroll" -> 16
      [] move_speed = "walk" -> 8
      [] move_speed = "run" -> 4
      [] move_speed = "sprint" -> 2
      [] move_speed = "scamper" -> 1
      [] OTHER -> 8

\* the traveller is a candidate for a timed traversal of e: not moving and not
\* at e's destination
MayStart(e) ==
    /\ e \in PathExits
    /\ traveller.currently_moving = 0
    /\ traveller.location # exits[e].destination

\* after the step the traveller is inside e and holds the one new delayed call,
\* which is pending with nothing waited and due after the table's delay
StartedTimed(e) ==
    /\ traveller'.location = e
    /\ Cardinality(Pending(deferreds')) = Cardinality(Pending(deferreds)) + 1
    /\ traveller'.currently_moving \in Pending(deferreds')
    /\ deferreds'[traveller'.currently_moving].delay = TableDelay(traveller.move_speed)
    /\ deferreds'[traveller'.currently_moving].waited = 0
    /\ deferreds'[traveller'.currently_moving].self = e
    /\ deferreds'[traveller'.currently_moving].target_location = exits[e].destination

C16_Stated_Step ==
    \A e \in ExitNames : \A success \in BOOLEAN :
        (MayStart(e) /\ AtTraverse(e, TRUE, success)) => StartedTimed(e)

\* C16 as stated: at a path exit, a traveller who is not moving, not at the
\* destination and not vetoed is always moved into the exit, with one arrival
\* scheduled after the delay of the stored speed and held as the marker. It
\* fails when the move into the exit itself fails.
C16_StartsWheneverAllowed == [][C16_Stated_Step]_vars

C16_Step ==
    \A e \in ExitNames :
        (MayStart(e) /\ AtTraverse(e, TRUE, TRUE)) => StartedTimed(e)

\* C16: at a path exit, a traveller who is not moving, not at the destination,
\* not vetoed, and whose move into the exit succeeds (a traveller already
\* inside the exit is not moved) ends the call inside the exit, with exactly one
\* arrival scheduled after the delay of the stored speed (stroll 16, walk 8,
\* run 4, sprint 2, scamper 1; 8 when none is stored) and held as the marker.
C16_TimedTraversalStarts == [][C16_Step]_vars

\* a traveller set to run has just entered the trail, arrival due in 4
C16_Witness ==
    /\ out.cmd = "at_traverse"
    /\ out.args = "trail"
    /\ traveller.move_speed = "run"
    /\ traveller.location = "trail"
    /\ traveller.last_location = "Forest"
    /\ traveller.currently_moving \in Pending(deferreds)
    /\ deferreds[traveller.currently_moving].delay = 4
    /\ deferreds[traveller.currently_moving].waited = 0


\* a stop given while the marker names a call that is still pending
StopWhileMoving ==
    /\ CmdStop
    /\ traveller.currently_moving \in Pending(deferreds)

C17_Step ==
    /\ StopWhileMoving =>
           /\ traveller'.location = traveller.location
           /\ traveller.location \in PathExits
           /\ traveller'.currently_moving = 0
           /\ Pending(deferreds') = {}
           /\ out'.events = <<Ev("msg", "stop_moving"), Ev("return", "None")>>
    /\ (CmdStop /\ traveller.currently_moving = 0) =>
           /\ traveller' = traveller
           /\ deferreds' = deferreds
           /\ out'.events = <<Ev("msg", "not_moving"), Ev("return", "None")>>
    /\ (Pending(deferreds) = {}) =>
           \A d \in 1..Len(deferreds), success \in BOOLEAN : ~MoveCallback(d, success)

\* C17: a stop given after a timed traversal has started and before its arrival
\* is made confirms stopping, leaves the traveller inside the exit without
\* marker and leaves no arrival pending, and only a pending arrival is ever
\* made, so the cancelled one never moves the traveller; a stop with no marker
\* only reports not moving and changes nothing.
C17_StopCancelsArrival == [][C17_Step]_vars

\* the traveller has stopped on the trail, on the way out of the Forest
C17_Witness ==
    /\ out.cmd = "stop"
    /\ Sent("stop_moving")
    /\ traveller.location = "trail"
    /\ traveller.currently_moving = 0
    /\ traveller.last_location = "Forest"
    /\ deferreds = <<>>


\* at_traverse is called for a traveller who holds a marker, or is vetoed
BlockedTraversal ==
    \E e \in ExitNames, allowed \in BOOLEAN, success \in BOOLEAN :
        /\ AtTraverse(e, allowed, success)
        /\ traveller.currently_moving # 0 \/ ~allowed

C18_Step ==
    BlockedTraversal =>
        /\ traveller'.location = traveller.location
        /\ traveller'.currently_moving = traveller.currently_moving
        /\ traveller'.last_location = traveller.last_location
        /\ traveller'.last_room = traveller.last_room
        /\ deferreds' = deferreds

\* C18: a call of at_traverse for a traveller who already holds a marker, or
\* whom at_before_move vetoes, leaves the traveller's location, marker, last
\* location and last room and the delayed calls as they were: nothing new is
\* scheduled and the pending call keeps its time.
C18_BlockedTraversalFrame == [][C18_Step]_vars

\* a traveller on the way along the trail asked to take it again and was told
\* they are already moving
C18_Witness ==
    /\ out.cmd = "at_traverse"
    /\ Sent("already_moving")
    /\ traveller.location = "trail"
    /\ traveller.currently_moving \in Pending(deferreds)
    /\ deferreds[traveller.currently_moving].waited > 0


\* C19 as stated: the marker is cleared on arrival, on cancellation and on
\* failure, so a traveller holds a marker only while its arrival is still
\* pending. It fails after an arrival whose move failed: move_callback clears
\* the marker only in its success branch.
C19_MarkerOnlyWhilePending ==
    traveller.currently_moving # 0 =>
        traveller.currently_moving \in Pending(deferreds)

\* the arrival of a delayed traversal is made and its move fails
FailedArrival(d) == MoveCallback(d, FALSE)

C20_Stated_Step ==
    \A d \in 1..Len(deferreds) :
        FailedArrival(d) =>
            /\ ~out'.raised
            /\ exits[deferreds[d].self].err_traverse # "" =>
                   Ev("msg", exits[deferreds[d].self].err_traverse) \in Range(out'.events)
            /\ exits[deferreds[d].self].err_traverse = "" =>
                   Ev("at_failed_traverse", deferreds[d].self) \in Range(out'.events)

\* C20 as stated: when the move at arrival fails, nothing is raised: the
\* traveller is sent the exit's err_traverse text if the exit stores one, else
\* at_failed_traverse is called for the traveller. It fails for an exit that
\* stores a text: the callback raises AttributeError and sends nothing.
C20_FailedArrivalReported == [][C20_Stated_Step]_vars


----------------------------------------------------------------------------
(* back and continue *)

\* every hook allows and every move within an exit's command succeeds
AllYes == [e \in ExitNames |-> TRUE]

\* back is given by a traveller who is nowhere, where no exit's command is run
BackFromNowhere ==
    /\ traveller.location = ""
    /\ \E moved \in BOOLEAN : CmdBack(AllYes, AllYes, moved)

\* back is given by a traveller who is nowhere, and its move succeeds
BackFromNowhereMoved ==
    /\ traveller.location = ""
    /\ CmdBack(AllYes, AllYes, TRUE)

\* the place the priority order names: last location, else last room, else home
PlaceByPriority ==
    IF traveller.last_location # "" THEN traveller.last_location
    ELSE IF traveller.last_room # "" THEN traveller.last_room
    ELSE traveller.home

\* nothing but the traveller's location changes
OnlyLocationChanges ==
    /\ traveller' = [traveller EXCEPT !.location = traveller'.location]
    /\ deferreds' = deferreds

C21_Stated_Step ==
    BackFromNowhere =>
        /\ traveller'.location = PlaceByPriority
        /\ OnlyLocationChanges

\* C21 as stated: back given nowhere moves the traveller to the last location
\* if set, else to the last room if set, else home, and does nothing else. It
\* fails when the move fails, and when the last location is an exit, which the
\* move goes through to its destination.
C21_BackToPlaceByPriority == [][C21_Stated_Step]_vars

C21_Step ==
    /\ BackFromNowhereMoved =>
           /\ traveller'.location =
                  IF PlaceByPriority \in ExitNames
                  THEN exits[PlaceByPriority].destination
                  ELSE PlaceByPriority
           /\ OnlyLocationChanges
    /\ BackFromNowhere =>
           /\ OnlyLocationChanges
           /\ ~out'.raised
           /\ \A i \in 1..Len(out'.events) : out'.events[i].k # "msg"

\* C21: back given nowhere attempts one move, to the last location if set, else
\* to the last room if set, else home; when the move succeeds the traveller is
\* at that place, or at its destination when that place is an exit; nothing
\* else changes, and nothing is said.
C21_BackFromNowhere == [][C21_Step]_vars

\* a traveller who had walked the trail from the Forest to the Glade and was
\* then nowhere has come back to the Glade, at the end of the trail
C21_Witness ==
    /\ out.cmd = "back"
    /\ out.events = <<Ev("move_to", "Glade"), Ev("return", "None")>>
    /\ traveller.location = "Glade"
    /\ traveller.last_location = "trail"
    /\ traveller.last_room = "Forest"


\* back is given inside a path exit while the arrival is pending
BackWhileMoving(moved) ==
    /\ traveller.location \in PathExits
    /\ traveller.currently_moving \in Pending(deferreds)
    /\ CmdBack(AllYes, AllYes, moved)

C22_Step ==
    /\ \A moved \in BOOLEAN :
           BackWhileMoving(moved) =>
               /\ traveller'.currently_moving = 0
               /\ Pending(deferreds') = {}
               /\ traveller'.location =
                      IF moved THEN exits[traveller.location].location
                      ELSE traveller.location
               /\ out'.events =
                      <<Ev("msg", "stop_moving"), Ev("msg", "turn_around")>>
                      \o (IF moved
                          THEN <<Ev("move_to", exits[traveller.location].location)>>
                          ELSE <<>>)
                      \o <<Ev("return", "None")>>
    /\ \A d \in 1..Len(deferreds), success \in BOOLEAN :
           MoveCallback(d, success) => d \in Pending(deferreds)

\* C22: back given inside a path exit while the arrival is pending first stops
\* the movement and then moves toward the exit's origin: afterwards there is no
\* marker and no pending call, the traveller is at the origin when the move
\* succeeded and still in the exit when it did not, and as only pending calls
\* are made the cancelled one never moves the traveller.
C22_BackStopsThenReturns == [][C22_Step]_vars

\* a traveller who had set out on the trail has turned back into the Forest
C22_Witness ==
    /\ out.cmd = "back"
    /\ Sent("stop_moving")
    /\ Sent("turn_around")
    /\ traveller.location = "Forest"
    /\ traveller.last_location = "Forest"
    /\ traveller.currently_moving = 0
    /\ deferreds = <<>>


\* the labels speed may reply with
SpeedLabels == {"strolling", "walking", "running", "sprinting", "scampering"}

C23_Stated_Step ==
    CmdSpeed("") =>
        /\ ~out'.raised
        /\ \E label \in SpeedLabels :
               out'.events = <<Ev("msg", "speed_is_" \o label), Ev("return", "None")>>
        /\ traveller' = traveller
        /\ deferreds' = deferreds

\* C23 as stated: speed without argument always replies with the label of the
\* current speed and changes nothing, whatever speed is stored, none included.
\* It fails when no speed is stored: SPEED_DESCS[8] raises KeyError and nothing
\* is sent.
C23_SpeedAlwaysReports == [][C23_Stated_Step]_vars


----------------------------------------------------------------------------
(* Command bundles and the process pool *)

\* the character bundle has been made
CharacterBundleMade == cmdsets["Character"].state # "none"

\* the commands of the character bundle bound to key k
BoundTo(k) == {c \in cmdsets["Character"].commands : c.key = k}

CompassKeys == {"NW", "N", "NE", "E", "SE", "S", "SW", "W"}

\* C24 as stated: once made, the character bundle holds exactly one command for
\* each of the eight compass keys and none of the framework's get, drop and
\* access commands. It fails because the module that defines the bundle cannot
\* be imported (C25): the game is left with the framework's bundle or none.
C24_CompassAndRemovals ==
    CharacterBundleMade =>
        /\ \A k \in CompassKeys : Cardinality(BoundTo(k)) = 1
        /\ \A c \in cmdsets["Character"].commands :
               c.cls \notin {"default_cmds.CmdGet", "default_cmds.CmdDrop",
                             "default_cmds.CmdAccess"}

\* C25 as stated: every name the bundle module imports from the exit module is
\* a command that module defines, so the import succeeds, and once made the
\* character bundle holds the exit module's stop, speed, continue and back. It
\* fails at the import: the exit module defines CmdSpeed, not CmdSetSpeed.
C25_PathCommandsInBundle ==
    /\ cmdset_module # "ImportError"
    /\ CharacterBundleMade =>
           \A k \in {"stop", "speed", "continue", "back"} :
               \E c \in BoundTo(k) : c \in {ExitsCommands[n] : n \in DOMAIN ExitsCommands}


\* the services named PythonProcPool
ProcPoolServices ==
    {n \in 1..Len(server.services) : server.services[n].name = "PythonProcPool"}

----------------------------------------------------------------------------
(* The encoding command *)

\* the codec names python knows among those tried
RecognizedNames == {"latin-1", "ascii"}

\* how many times the last command resynchronized a session
SyncsIn(events) ==
    Cardinality({i \in 1..Len(events) : events[i].k = "session_portal_sync"})

C26_Step ==
    \A s \in DOMAIN sessions : \A a \in EncodingArgs :
        CmdUnconnectedEncoding(s, FALSE, a) =>
            IF a = ""
            THEN /\ sessions' = sessions
                 /\ out'.events = MsgOnly("encoding_list")
            ELSE IF a \in RecognizedNames
            THEN /\ sessions' = [sessions EXCEPT ![s].ENCODING = a]
                 /\ SyncsIn(out'.events) = 1
                 /\ Ev("session_portal_sync", s) \in Range(out'.events)
                 /\ Ev("msg", "encoding_changed") \in Range(out'.events)
            ELSE /\ sessions' = sessions
                 /\ out'.events = MsgOnly("encoding_invalid")

\* C26: encoding with a name python does not know leaves the session's encoding
\* as it was, reports the rejection and resynchronizes nothing; with a name it
\* knows it sets the session's encoding to that name and resynchronizes that
\* session exactly once; without argument or switch it only lists and changes
\* nothing.
C26_EncodingChange == [][C26_Step]_vars

\* a session that had chosen latin-1 asked for an unknown codec and kept latin-1
C26_Witness ==
    /\ out.cmd = "encoding"
    /\ out.args = "klingon"
    /\ out.events = MsgOnly("encoding_invalid")
    /\ sessions[out.sess].ENCODING = "latin-1"


----------------------------------------------------------------------------
(* Order and bookkeeping of traversals *)

\* the traveller stands beside path exit e, not inside it, and may start
OutsideMayStart(e) ==
    /\ MayStart(e)
    /\ traveller.location # e

\* the positions of event ev in the events of the step's command
PositionsOf(ev) == {i \in 1..Len(out'.events) : out'.events[i] = ev}

C28_Stated_Step ==
    \A e \in ExitNames :
        /\ (OutsideMayStart(e) /\ AtTraverse(e, TRUE, FALSE)) =>
               /\ PositionsOf(Ev("msg", "start_moving")) = {}
               /\ deferreds' = deferreds
               /\ traveller' = traveller
        /\ (OutsideMayStart(e) /\ AtTraverse(e, TRUE, TRUE)) =>
               \A i \in PositionsOf(Ev("msg", "start_moving")) :
                   \E j \in PositionsOf(Ev("move_to", e)) : j < i

\* C28 as stated: for a traveller not yet inside the path exit the move into
\* the exit comes before the start-moving announcement: when that move fails
\* nothing is announced, scheduled or marked, and the announcement follows the
\* entry. It fails: the announcement is sent before the move is tried.
C28_MoveBeforeAnnouncement == [][C28_Stated_Step]_vars


C29_Step ==
    /\ traveller'.last_room \notin ExitNames
    /\ traveller'.last_location # traveller.last_location =>
           traveller'.last_location = traveller.location
    /\ traveller'.last_room # traveller.last_room =>
           /\ traveller'.last_room = traveller.location
           /\ traveller'.last_location = traveller.location
           /\ traveller.location \in Rooms
    /\ \A d \in 1..Len(deferreds) :
           (MoveCallback(d, TRUE)) =>
               /\ traveller.location = deferreds[d].self
               /\ traveller'.location = exits[deferreds[d].self].destination
               /\ traveller'.last_location = deferreds[d].self
               /\ traveller'.last_room = exits[deferreds[d].self].location

\* C29: through traversals, stops, continues, backs and arrivals the last room
\* is never an exit: the last location only ever becomes the prior location,
\* the last room only ever becomes a prior location that is a room, and after
\* an arrival from room A through path exit E at room B the last location is E
\* and the last room is A.
C29_LastRoomIsRoom == [][C29_Step]_vars

\* the traveller has arrived in the Glade through the trail from the Forest
C29_Witness ==
    /\ out.cmd = "move_callback"
    /\ out.args = "trail"
    /\ traveller.location = "Glade"
    /\ traveller.last_location = "trail"
    /\ traveller.last_room = "Forest"
    /\ traveller.currently_moving = 0


C30_Stated_Step ==
    \A success \in BOOLEAN :
        /\ (traveller.currently_moving = 0 /\ CmdContinue(success)) =>
               /\ ~out'.raised
               /\ deferreds' = deferreds
               /\ traveller'.currently_moving = 0
               /\ success =>
                      /\ traveller'.location = exits[traveller.location].destination
                      /\ traveller'.last_location = traveller.location
        /\ (traveller.currently_moving # 0 /\ CmdContinue(success)) =>
               /\ traveller' = traveller
               /\ deferreds' = deferreds

\* C30 as stated: continue given by a traveller stopped inside an exit moves
\* them to the exit's destination at once, without delayed call or marker, and
\* on success records the exit as last location, whatever speed is stored, none
\* included; given while a marker is held it changes nothing. It fails when no
\* speed is stored: SPEED_DESCS[None] raises KeyError before the move.
C30_ContinueMovesAtOnce == [][C30_Stated_Step]_vars

----------------------------------------------------------------------------
(* back in a room *)

\* back is given in a room that is not the recorded last room
BackInOtherRoom ==
    /\ traveller.location \in Rooms
    /\ traveller.last_room \notin {"", traveller.location}
    /\ \E allowed \in AskedAnswers, success \in AskedAnswers, moved \in BOOLEAN :
           CmdBack(allowed, success, moved)

\* the exits standing in the traveller's room
ExitsHere == {e \in ExitNames : exits[e].location = traveller.location}

\* the exits whose traversal command the step's command ran: the commands it
\* executed, but for the names that were no command
Traversed ==
    {e \in ExitNames :
        \E i \in 1..(Len(out'.events) - 1) :
            /\ out'.events[i] = Ev("execute_cmd", e)
            /\ out'.events[i + 1] # Ev("msg", "not_available")}

C31_Stated_Step ==
    BackInOtherRoom =>
        /\ Cardinality(Traversed) <= 1
        /\ \A e \in Traversed : exits[e].destination = traveller.last_room
        /\ (ExitsHere # {} /\ Traversed = {}) =>
               traveller'.location = traveller.location
        /\ ExitsHere = {} => traveller'.location = traveller.last_room

\* C31 as stated: back given in a room whose recorded last room is another room
\* runs the traversal command of at most one exit, one that leads to the last
\* room; in a room whose exits do not lead there the traveller stays, and from
\* a room without exits they are moved to the last room. It fails in a room
\* with two exits to the last room when the first traversal is refused: the
\* loop goes on and runs the second exit's command too.
C31_BackRunsOneExit == [][C31_Stated_Step]_vars

----------------------------------------------------------------------------
(* What holds across commands *)

\* no address has more than five failures on its list
FailListsBounded == \A k \in DOMAIN storage : Len(storage[k]) <= 5

C32_Step ==
    \A k \in DOMAIN storage :
        storage'[k] # storage[k] =>
            /\ \E s \in DOMAIN sessions :
                   /\ out'.cmd = "connect"
                   /\ out'.sess = s
                   /\ AddrKey(sessions[s].address) = k
            /\ \/ /\ Len(storage[k]) < 5
                  /\ storage'[k] = Append(storage[k], now)
               \/ /\ Len(storage[k]) = 5
                  /\ now - storage[k][5] >= 300
                  /\ storage'[k] \in {<<>>, <<now>>}

\* C32: after any sequence of connects from any sessions the fail list of every
\* address holds at most 5 timestamps: a list changes only by a connect from
\* that address, which adds one timestamp to a list of fewer than 5, or, when
\* the list holds 5 and the timeout has passed since its last entry, empties it
\* and adds at most one.
C32_FailListBounded == []FailListsBounded /\ [][C32_Step]_vars

\* a fifth failure has just been recorded for an address
C32_Witness ==
    \E s \in DOMAIN sessions :
        /\ out.cmd = "connect"
        /\ out.sess = s
        /\ Ev("msg", "incorrect") \in Range(out.events)
        /\ Len(out.fails) = 4
        /\ Len(storage[AddrKey(sessions[s].address)]) = 5


\* C33: under any interleaving of traversals, stops, continues, backs and timer
\* firings the traveller has at most one pending arrival call at a time, and
\* while one is pending the delayed-movement marker holds its handle.
C33_OnePendingArrival ==
    /\ Cardinality(Pending(deferreds)) <= 1
    /\ \A d \in Pending(deferreds) : traveller.currently_moving = d

\* a second traversal was tried while an arrival was pending and partly waited
\* for, and was turned away
C33_Witness ==
    /\ out.cmd = "at_traverse"
    /\ Sent("already_moving")
    /\ Pending(deferreds) = {traveller.currently_moving}
    /\ deferreds[traveller.currently_moving].waited > 0


\* an arrival is pending
ArrivalPending == Pending(deferreds) # {}

\* the arrival call has just been made, or a stop or back has just called it off
FiredOrCalledOff ==
    \/ out.cmd = "move_callback"
    \/ out.cmd \in {"stop", "back"} /\ Pending(deferreds) = {}

C34_Step ==
    \A d \in 1..Len(deferreds) :
        MoveCallback(d, TRUE) =>
            /\ traveller'.location = exits[deferreds[d].self].destination
            /\ traveller'.currently_moving = 0
            /\ traveller'.last_location = deferreds[d].self
            /\ Pending(deferreds') = {}

\* C34: while the timer goes on, a traveller who has started a path traversal
\* and gives no stop or back eventually has the arrival call made; when its
\* move into the destination succeeds the traveller is then at the exit's
\* destination, without marker, with the exit as last location.
C34_ArrivalFires ==
    /\ ArrivalPending ~> FiredOrCalledOff
    /\ [][C34_Step]_vars

\* a traveller who had chosen to run has arrived back in the Forest
C34_Witness ==
    /\ out.cmd = "move_callback"
    /\ out.args = "trail back"
    /\ traveller.location = "Forest"
    /\ traveller.move_speed = "run"
    /\ traveller.currently_moving = 0
    /\ traveller.last_location = "trail back"
    /\ deferreds = <<>>


\* the name typed is on the ban list, or session s comes from a banned address
BannedNameOrHost(s, name) ==
    \/ \E b \in bans : b.name = LowerOf[name]
    \/ \E b \in bans : b.haspat /\ AddrKey(sessions[s].address) \in b.hosts

\* the step is a connect of session s with a name and a password, not throttled
ConnectsWithPassword(s) ==
    /\ Does("connect", s)
    /\ ~ThrottledAt(FailsOf(storage, s), now)
    /\ Len(ConnectParts(out'.args)) = 2

C35_Step ==
    \A s \in DOMAIN sessions :
        /\ (/\ ConnectsWithPassword(s)
            /\ BannedNameOrHost(s, ConnectParts(out'.args)[1])
            /\ authenticate(accounts, ConnectParts(out'.args)[1],
                            ConnectParts(out'.args)[2]) = 0) =>
               /\ Ev("msg", "incorrect") \in Range(out'.events)
               /\ Ev("msg", "banned") \notin Range(out'.events)
               /\ \A i \in 1..Len(out'.events) : out'.events[i].k # "disconnect"
               /\ ~out'.raised
               /\ sessions' = sessions
               /\ Len(FailsOf(storage', s)) \in {1, Len(FailsOf(storage, s)) + 1}
               /\ Last(FailsOf(storage', s)) = now
        /\ (/\ ConnectsWithPassword(s)
            /\ Ev("msg", "banned") \in Range(out'.events)) =>
               /\ authenticate(accounts, ConnectParts(out'.args)[1],
                               ConnectParts(out'.args)[2]) # 0
               /\ out'.events[1] = Ev("authenticate", ConnectParts(out'.args)[1])

\* C35: connect consults the ban list only after authentication has succeeded:
\* a connect with a wrong password for a banned name or from a banned address is
\* an ordinary failed login (the incorrect-login message, one timestamp on the
\* fail list, no ban notice, no disconnection), and the ban notice is sent only
\* in a connect whose name and password authenticated, after the authentication.
C35_BanAfterAuthentication == [][C35_Step]_vars

\* a wrong password for the banned name anna has been answered as a failed login
C35_Witness ==
    \E s \in DOMAIN sessions :
        /\ Did("connect", s)
        /\ out.args = " anna wrong"
        /\ \E b \in bans : b.name = "anna"
        /\ Sent("incorrect")
        /\ ~Sent("banned")
        /\ sessions[s].connected
        /\ Len(FailsOf(storage, s)) = Len(out.fails) + 1

====
